---- MODULE Spec2Model ----
(***************************************************************************)
(* ThinkTwice: the orchestrator of backend/core/pipeline.py with the       *)
(* Gatekeeper (core/gatekeeper.py) and the ConvergenceChecker              *)
(* (core/convergence.py) it drives.                                        *)
(*                                                                         *)
(* Specifications:                                                         *)
(*   Spec       one run of ThinkTwicePipeline.execute_pipeline             *)
(*   GateSpec   one call of Gatekeeper.gate on a drawn input               *)
(*   ConvSpec   one call of ConvergenceChecker.check_convergence           *)
(*   VerifySpec one call of Verifier.dual_verify, track by track           *)
(*   SharedSpec two runs calling dual_verify of one shared Verifier        *)
(*   TrustSpec  one call of Truster.trust_and_rank on a drawn input        *)
(*   DecompSpec  one call of Decomposer.decompose on a drawn response      *)
(*   EnforceSpec one call of enforce or of a count enforcement of          *)
(*               structural_enforcer.py                                    *)
(*   LLMSpec     one call of a method of LLMService (services/llm.py)      *)
(*   OverrideSpec the per-request overrides of execute_pipeline            *)
(***************************************************************************)
EXTENDS Integers, Sequences, FiniteSets, TLC

VARIABLES
    pc,                 \* position of execute_pipeline
    all_null,           \* history: every generate_with_tools call so far returned None
    max_iter,           \* pipeline.py:88
    constraints,        \* decompose_result.constraints
    draft_content,      \* pipeline.py:150-152
    gate_result,        \* pipeline.py:174-179
    current_draft,      \* pipeline.py:194
    all_verifications,  \* pipeline.py:195, 275
    iteration,          \* pipeline.py:196, 209
    fast_path,          \* pipeline.py:197
    critique_result,    \* pipeline.py:224-233
    refine_result,      \* pipeline.py:301-314
    convergence_result, \* pipeline.py:330-339
    trust_result,       \* pipeline.py:366-382
    events,             \* the SSE events yielded so far, <<name, iteration>>
    calls,              \* the component calls awaited so far, <<phase, iteration>>
    call,               \* the call under test
    ret,                \* what the call returned
    runs,               \* the dual_verify coroutine of each run: its locals
    heap,               \* the list objects made by dual_verify, by identity
    results_ref,        \* Verifier._results_v2: the list it is bound to
    tracks              \* VerifySpec: the web and self coroutine of each claim

vars == <<pc, all_null, max_iter, constraints, draft_content, gate_result, current_draft,
          all_verifications, iteration, fast_path, critique_result,
          refine_result, convergence_result, trust_result, events, calls,
          call, ret, runs, heap, results_ref, tracks>>

verifier_vars == <<runs, heap, results_ref, tracks>>

pipeline_vars == <<pc, all_null, max_iter, constraints, draft_content, gate_result,
                   current_draft, all_verifications, iteration, fast_path,
                   critique_result, refine_result, convergence_result,
                   trust_result, events, calls>>

(***************************************************************************)
(* Bounds of the model and constants of the program.                       *)
(***************************************************************************)
MaxConstraints == 2     \* longest constraint list drawn
MaxSubQuestions == 2    \* longest sub_questions list in a gate response
MaxChecks == 2          \* longest constraint_checks list in a convergence response
MaxIterations == 2      \* largest max_iterations drawn
MaxTokens == 1          \* most tokens the draft stream yields
MaxClaims == 1          \* most claims a critique returns
MaxVerifyClaims == 2    \* longest claim list handed to dual_verify
MaxStructCount == 2     \* largest placeholder, bullet or all-caps word count of a text
MaxEntries == 2         \* longest constraints list in a decomposition response

GateThreshold == 85          \* Settings.gate_threshold
ConvergenceThreshold == 80   \* Settings.convergence_threshold
ConfidenceMax == 100         \* Field(ge=0, le=100)

NoCall == [fn |-> "none"]

\* the two runs that may share one pipeline object
Runs == {1, 2}

\* a coroutine that has not been created
\* input, answer and derivation are those of the model call of the self track
IdleTrack == [st |-> "idle", found |-> FALSE, verdict |-> "unclear",
              input |-> <<>>, answer |-> [kind |-> "idle"], derivation |-> ""]

IdleRun == [claims |-> <<>>, idx |-> 0, pc |-> "idle", ret |-> [kind |-> "none"]]

\* Verifier.__init__: self._results_v2 = [], and nothing running
VerifierIdle ==
    /\ runs = [r \in Runs |-> IdleRun]
    /\ heap = <<(<<>>)>>
    /\ results_ref = 1
    /\ tracks = [k \in 1..MaxVerifyClaims |-> [web |-> IdleTrack, self |-> IdleTrack]]

(***************************************************************************)
(* Python helpers.                                                         *)
(***************************************************************************)
\* dict.get(key, default)
Get(d, k, default) == IF k \in DOMAIN d THEN d[k] ELSE default

\* the dict d with only the keys ks
Restrict(d, ks) == [k \in ks |-> d[k]]

RECURSIVE SeqsUpTo(_, _)
SeqsUpTo(S, n) ==
    IF n = 0 THEN {<<>>}
    ELSE LET shorter == SeqsUpTo(S, n - 1)
         IN  shorter \cup {Append(s, x) : s \in {t \in shorter : Len(t) = n - 1}, x \in S}

MapSeq(s, F(_)) == [i \in 1..Len(s) |-> F(s[i])]

(***************************************************************************)
(* Constraints (core/schemas.py).  The i-th constraint of a list has id    *)
(* C<i>, as the decomposition prompt numbers them.                         *)
(***************************************************************************)
ConstraintPriority == {"high", "medium", "low"}

ConstraintId(i) == IF i = 1 THEN "C1" ELSE IF i = 2 THEN "C2" ELSE IF i = 3 THEN "C3" ELSE "C4"

ConstraintLists ==
    {[i \in 1..Len(ps) |-> [id |-> ConstraintId(i), priority |-> ps[i]]] :
        ps \in SeqsUpTo(ConstraintPriority, MaxConstraints) \ {<<>>}}

\* {c.id for c in constraints if c.priority == ConstraintPriority.HIGH}
HighPriorityIds(cs) == {cs[i].id : i \in {j \in 1..Len(cs) : cs[j].priority = "high"}}

ConstraintIds(cs) == MapSeq(cs, LAMBDA c : c.id)

(***************************************************************************)
(* What LLMService.generate_with_tools gives a phase: the tool input (a    *)
(* dict), None, or an exception.                                           *)
(***************************************************************************)
Tool(input) == [kind |-> "tool", input |-> input]
LLMNone == [kind |-> "none"]
LLMRaise == [kind |-> "raise"]

(***************************************************************************)
(* Gatekeeper (core/gatekeeper.py).  gate_min_pass_rate is held in         *)
(* percent: passed / total < rate  iff  passed * 100 < pct * total.        *)
(***************************************************************************)
NoResult == [kind |-> "none"]

\* mutant of Gatekeeper_fallback_result: the gate fails open
GatekeeperFallbackFailsOpen(cs) ==
    [sub_questions |-> <<>>,
     gate_decision |-> "skip",
     gate_confidence |-> 0,
     failing_constraints |-> ConstraintIds(cs)]

Gatekeeper_fallback_result(cs) ==
    [sub_questions |-> <<>>,
     gate_decision |-> "refine",
     gate_confidence |-> 0,
     failing_constraints |-> ConstraintIds(cs)]

SubQuestionKeys == {"constraint_id", "question", "answer", "passed"}

\* SubQuestion(constraint_id=sq["constraint_id"], ...) raises KeyError on a
\* missing key, and the entry is skipped
ParseSubQuestions(raw) ==
    SelectSeq(raw, LAMBDA sq : SubQuestionKeys \subseteq DOMAIN sq)

PassedCount(sqs) == Cardinality({i \in 1..Len(sqs) : sqs[i].passed})

\* mutant of HighFailed: the passed flag read without its negation
HighFailedNotNegated(cs, sqs) ==
    \E i \in 1..Len(sqs) :
        sqs[i].constraint_id \in HighPriorityIds(cs) /\ sqs[i].passed

HighFailed(cs, sqs) ==
    \E i \in 1..Len(sqs) :
        sqs[i].constraint_id \in HighPriorityIds(cs) /\ ~sqs[i].passed

PassRateBelow(passed_count, total_count, min_pass_pct) ==
    passed_count * 100 < min_pass_pct * total_count

GateOverride(cs, sqs, raw_confidence, gate_threshold, min_pass_pct) ==
    \/ HighFailed(cs, sqs)
    \/ PassRateBelow(PassedCount(sqs), Len(sqs), min_pass_pct)
    \/ raw_confidence < gate_threshold

FailedIds(sqs) ==
    MapSeq(SelectSeq(sqs, LAMBDA sq : ~sq.passed), LAMBDA sq : sq.constraint_id)

GateDecide(cs, sqs, raw_decision, raw_confidence, gate_threshold, min_pass_pct) ==
    IF sqs # <<>> /\ GateOverride(cs, sqs, raw_confidence, gate_threshold, min_pass_pct)
    THEN "refine"
    ELSE raw_decision

\* mutant of GateFailing: a missing failing list is left empty
GateFailingAsGiven(sqs, failing) == failing

GateFailing(sqs, failing) ==
    IF sqs # <<>> /\ failing = <<>> THEN FailedIds(sqs) ELSE failing

Gatekeeper_gate(cs, llm, gate_threshold, min_pass_pct) ==
    IF llm.kind # "tool" THEN Gatekeeper_fallback_result(cs)
    ELSE LET result == llm.input
             sub_questions == ParseSubQuestions(Get(result, "sub_questions", <<>>))
             raw_decision == Get(result, "gate_decision", "refine")
             raw_confidence == Get(result, "gate_confidence", 0)
             failing == Get(result, "failing_constraints", <<>>)
         IN  IF raw_confidence \notin 0..ConfidenceMax
             THEN Gatekeeper_fallback_result(cs)   \* GateResult(...) raises inside the try
             ELSE [sub_questions |-> sub_questions,
                   gate_decision |->
                       GateDecide(cs, sub_questions, raw_decision, raw_confidence,
                                  gate_threshold, min_pass_pct),
                   gate_confidence |-> raw_confidence,
                   failing_constraints |-> GateFailing(sub_questions, failing)]

(***************************************************************************)
(* The gate responses drawn.                                               *)
(***************************************************************************)
ResponseIds == {"C1", "C2"}

SubQuestionEntries ==
    {[constraint_id |-> id, question |-> "q", answer |-> "a", passed |-> p] :
        id \in ResponseIds, p \in BOOLEAN}
    \cup {[constraint_id |-> "C1", passed |-> FALSE]}

GateKeys == {"sub_questions", "gate_decision", "gate_confidence", "failing_constraints"}

GateToolInputs ==
    {Restrict([sub_questions |-> sqs, gate_decision |-> d,
               gate_confidence |-> c, failing_constraints |-> f], GateKeys \ drop) :
        sqs \in SeqsUpTo(SubQuestionEntries, MaxSubQuestions),
        d \in {"skip", "refine"},
        c \in {GateThreshold - 1, GateThreshold, ConfidenceMax + 1},
        f \in {<<>>, <<"C2">>},
        drop \in {{}, {"gate_decision"}, {"gate_confidence"}, {"sub_questions"}}}

GateLLMOutcomes == {LLMNone, LLMRaise} \cup {Tool(i) : i \in GateToolInputs}

MinPassPcts == {50, 100}

(***************************************************************************)
(* ConvergenceChecker (core/convergence.py).                               *)
(***************************************************************************)
\* mutant of ConvergenceFallback: a failed check asks for another iteration
ConvergenceFallbackContinues(cs) ==
    [decision |-> "continue",
     satisfied_count |-> 0,
     total_count |-> Len(cs),
     confidence |-> 0,
     unsatisfied_constraints |-> <<>>]

ConvergenceFallback(cs) ==
    [decision |-> "converged",
     satisfied_count |-> 0,
     total_count |-> Len(cs),
     confidence |-> 0,
     unsatisfied_constraints |-> <<>>]

ConvergenceDecision == {"converged", "continue", "max_iterations_reached"}

\* mutant of ForceMax: off by one
ForceMaxOffByOne(it, max_iterations) == it > max_iterations

ForceMax(it, max_iterations) == it >= max_iterations

IsSatisfied(c) == Get(c, "satisfied", FALSE)

\* decision when force_max is false
ConvergenceDecide(cs, raw_decision, unsatisfied, overall_confidence, threshold) ==
    LET decision == IF raw_decision \in ConvergenceDecision THEN raw_decision
                    ELSE "continue"
        high_unsatisfied == SelectSeq(unsatisfied, LAMBDA uid : uid \in HighPriorityIds(cs))
    IN  IF high_unsatisfied = <<>> /\ overall_confidence >= threshold THEN "converged"
        ELSE IF high_unsatisfied # <<>> THEN "continue"
        ELSE decision

check_convergence(cs, it, max_iterations, threshold, llm) ==
    IF llm.kind # "tool" THEN ConvergenceFallback(cs)
    ELSE LET result == llm.input
             checks == Get(result, "constraint_checks", <<>>)
             satisfied == SelectSeq(checks, IsSatisfied)
             not_satisfied == SelectSeq(checks, LAMBDA c : ~IsSatisfied(c))
             overall_confidence == Get(result, "overall_confidence", 0)
         IN  IF \E i \in 1..Len(not_satisfied) : "constraint_id" \notin DOMAIN not_satisfied[i]
             THEN ConvergenceFallback(cs)          \* c["constraint_id"] raises KeyError
             ELSE IF overall_confidence \notin 0..ConfidenceMax
             THEN ConvergenceFallback(cs)          \* ConvergenceResult(...) raises
             ELSE LET unsatisfied == MapSeq(not_satisfied, LAMBDA c : c.constraint_id)
                  IN  [decision |->
                           IF ForceMax(it, max_iterations) THEN "max_iterations_reached"
                           ELSE ConvergenceDecide(cs, Get(result, "decision", "continue"),
                                                  unsatisfied, overall_confidence, threshold),
                       satisfied_count |-> Len(satisfied),
                       total_count |-> Len(checks),
                       confidence |-> overall_confidence,
                       unsatisfied_constraints |-> unsatisfied]

(***************************************************************************)
(* The convergence responses drawn.                                        *)
(***************************************************************************)
CheckEntries ==
    {[constraint_id |-> id, satisfied |-> b, confidence |-> 50] :
        id \in ResponseIds, b \in BOOLEAN}
    \cup {[satisfied |-> FALSE, confidence |-> 50]}

ConvergenceKeys == {"constraint_checks", "decision", "overall_confidence"}

ConvergenceToolInputs ==
    {Restrict([constraint_checks |-> cks, decision |-> d, overall_confidence |-> c],
              ConvergenceKeys \ drop) :
        cks \in SeqsUpTo(CheckEntries, MaxChecks),
        d \in ConvergenceDecision \cup {"undecided"},
        c \in {ConvergenceThreshold - 1, ConvergenceThreshold, ConfidenceMax + 1},
        drop \in {{}, {"decision"}, {"overall_confidence"}, {"constraint_checks"}}}

ConvergenceLLMOutcomes == {LLMNone, LLMRaise} \cup {Tool(i) : i \in ConvergenceToolInputs}


(***************************************************************************)
(* GateSpec and ConvSpec: one call of the component on a drawn input.      *)
(***************************************************************************)
PipelineIdle ==
    /\ pc = "idle"
    /\ all_null = TRUE
    /\ max_iter = 0
    /\ constraints = <<>>
    /\ draft_content = <<>>
    /\ gate_result = NoResult
    /\ current_draft = <<>>
    /\ all_verifications = <<>>
    /\ iteration = 0
    /\ fast_path = FALSE
    /\ critique_result = NoResult
    /\ refine_result = NoResult
    /\ convergence_result = NoResult
    /\ trust_result = NoResult
    /\ events = <<>>
    /\ calls = <<>>

GateInit ==
    /\ call \in {[fn |-> "gate", constraints |-> cs, llm |-> r,
                  gate_threshold |-> GateThreshold, gate_min_pass_pct |-> p] :
                    cs \in ConstraintLists, r \in GateLLMOutcomes, p \in MinPassPcts}
    /\ ret = NoResult
    /\ PipelineIdle
    /\ VerifierIdle

GateReturn ==
    /\ call.fn = "gate"
    /\ ret = NoResult
    /\ ret' = Gatekeeper_gate(call.constraints, call.llm,
                              call.gate_threshold, call.gate_min_pass_pct)
    /\ UNCHANGED <<call, pipeline_vars>>
    /\ UNCHANGED verifier_vars

GateNext == GateReturn

GateSpec == GateInit /\ [][GateNext]_vars

ConvInit ==
    /\ call \in {[fn |-> "check_convergence", constraints |-> cs, iteration |-> i,
                  max_iterations |-> m, threshold |-> ConvergenceThreshold, llm |-> r] :
                    cs \in ConstraintLists, m \in 1..MaxIterations,
                    i \in 1..(MaxIterations + 1), r \in ConvergenceLLMOutcomes}
    /\ ret = NoResult
    /\ PipelineIdle
    /\ VerifierIdle

ConvReturn ==
    /\ call.fn = "check_convergence"
    /\ ret = NoResult
    /\ ret' = check_convergence(call.constraints, call.iteration, call.max_iterations,
                                call.threshold, call.llm)
    /\ UNCHANGED <<call, pipeline_vars>>
    /\ UNCHANGED verifier_vars

ConvNext == ConvReturn

ConvSpec == ConvInit /\ [][ConvNext]_vars


(***************************************************************************)
(* Structural analysis (core/structural_analysis.py).  A text is a body    *)
(* followed by pad, its trailing whitespace; a body is known by a tag and  *)
(* by what analyze measures on it.                                         *)
(***************************************************************************)
StructuralFlags ==
    {"starts_with_quote", "ends_with_quote", "all_uppercase", "all_lowercase",
     "has_postscript", "has_six_star_separator", "has_comma"}

Body(tag, flags, placeholders, bullets, caps) ==
    [tag |-> tag, flags |-> flags, placeholder_count |-> placeholders,
     bullet_count |-> bullets, all_caps_word_count |-> caps]

\* the text without characters
EmptyBody == Body("empty", {}, 0, 0, 0)

Text(body, pad) == [body |-> body, pad |-> pad]

\* str.strip()
Strip(text) == [text EXCEPT !.pad = ""]

\* analyze(text): measured on text.strip(); a text of whitespace only gives
\* the dict of the three zero counts and no other key
analyze(text) ==
    IF text.body = EmptyBody
    THEN [paragraph_count |-> 0, word_count |-> 0, sentence_count |-> 0]
    ELSE [starts_with_quote |-> "starts_with_quote" \in text.body.flags,
          ends_with_quote |-> "ends_with_quote" \in text.body.flags,
          all_uppercase |-> "all_uppercase" \in text.body.flags,
          all_lowercase |-> "all_lowercase" \in text.body.flags,
          has_postscript |-> "has_postscript" \in text.body.flags,
          has_six_star_separator |-> "has_six_star_separator" \in text.body.flags,
          has_comma |-> "has_comma" \in text.body.flags,
          placeholder_count |-> text.body.placeholder_count,
          bullet_count |-> text.body.bullet_count,
          all_caps_word_count |-> text.body.all_caps_word_count]

\* format_for_prompt(analysis) and format_delta index analysis["bullet_count"]
\* and raise KeyError on the dict of a whitespace-only text
FormatRaises(analysis) == "bullet_count" \notin DOMAIN analysis

(***************************************************************************)
(* Truster (core/truster.py).  A constraint description is known by the    *)
(* keywords of _check_structural_override that occur in its lower-cased    *)
(* text.                                                                   *)
(***************************************************************************)
ConstraintDescriptions ==
    {"wrap the response in double quotation marks",
     "include placeholders in square brackets like [name]",
     "write in all capital letters",
     "use only lowercase letters",
     "end with a postscript starting with p.s.",
     "separate the two responses by ******",
     "use exactly 3 bullet points",
     "do not use any commas",
     "answer in fewer than 50 words"}

\* the keywords kw with `kw in description.lower()`
KeywordsIn(description) ==
    CASE description = "wrap the response in double quotation marks" -> {"quotation", "wrap"}
      [] description = "include placeholders in square brackets like [name]" ->
             {"placeholder", "bracket", "[", "square"}
      [] description = "write in all capital letters" -> {"capital"}
      [] description = "use only lowercase letters" -> {"lowercase", "lower"}
      [] description = "end with a postscript starting with p.s." -> {"postscript", "p.s."}
      [] description = "separate the two responses by ******" -> {"******", "two responses"}
      [] description = "use exactly 3 bullet points" -> {"bullet"}
      [] description = "do not use any commas" -> {"comma"}
      [] OTHER -> {}

\* any(kw in all_constraints for kw in keywords)
Mentions(constraint_list, keywords) ==
    \E i \in 1..Len(constraint_list) : KeywordsIn(constraint_list[i].description) \cap keywords # {}

\* mutant of check_structural_override: only the quotation check is made
StructuralOverrideQuotesOnly(draft_analysis, refined_analysis, constraint_list) ==
    IF /\ draft_analysis.starts_with_quote /\ draft_analysis.ends_with_quote
       /\ ~(refined_analysis.starts_with_quote /\ refined_analysis.ends_with_quote)
       /\ Mentions(constraint_list, {"quotation", "quote", "wrap"})
    THEN "quotation wrapping lost"
    ELSE "none"

\* _check_structural_override: the reason, or "none" for None
check_structural_override(draft_analysis, refined_analysis, constraint_list) ==
    IF /\ draft_analysis.starts_with_quote /\ draft_analysis.ends_with_quote
       /\ ~(refined_analysis.starts_with_quote /\ refined_analysis.ends_with_quote)
       /\ Mentions(constraint_list, {"quotation", "quote", "wrap"})
    THEN "quotation wrapping lost"
    ELSE IF /\ draft_analysis.placeholder_count > refined_analysis.placeholder_count
            /\ Mentions(constraint_list, {"placeholder", "bracket", "[", "square"})
    THEN "placeholders decreased"
    ELSE IF /\ draft_analysis.all_uppercase /\ ~refined_analysis.all_uppercase
            /\ Mentions(constraint_list, {"capital", "uppercase", "upper case"})
    THEN "uppercase lost"
    ELSE IF /\ draft_analysis.all_lowercase /\ ~refined_analysis.all_lowercase
            /\ Mentions(constraint_list, {"lowercase", "lower case", "lower"})
    THEN "lowercase lost"
    ELSE IF /\ draft_analysis.all_caps_word_count > 0
            /\ refined_analysis.all_caps_word_count * 2 < draft_analysis.all_caps_word_count
            /\ Mentions(constraint_list, {"capital", "caps", "uppercase"})
    THEN "capitalized words decreased"
    ELSE IF /\ draft_analysis.has_postscript /\ ~refined_analysis.has_postscript
            /\ Mentions(constraint_list, {"postscript", "p.s."})
    THEN "postscript lost"
    ELSE IF /\ draft_analysis.has_six_star_separator /\ ~refined_analysis.has_six_star_separator
            /\ Mentions(constraint_list, {"******", "separator", "two responses"})
    THEN "separator lost"
    ELSE IF /\ ~draft_analysis.has_comma /\ refined_analysis.has_comma
            /\ Mentions(constraint_list, {"comma"})
    THEN "commas introduced"
    ELSE IF /\ draft_analysis.bullet_count > 0
            /\ refined_analysis.bullet_count < draft_analysis.bullet_count
            /\ Mentions(constraint_list, {"bullet", "list item", "list point"})
    THEN "bullet count decreased"
    ELSE "none"

TrustResult(winner, draft_score, refined_score, final_output, blended) ==
    [kind |-> "result", winner |-> winner, draft_score |-> draft_score,
     refined_score |-> refined_score, final_output |-> final_output, blended |-> blended]

\* mutant of Identical: the texts compared without trimming
IdenticalUntrimmed(original_draft, refined_output) == original_draft = refined_output

\* original_draft.strip() == refined_output.strip()
Identical(original_draft, refined_output) == Strip(original_draft) = Strip(refined_output)

\* mutant of NonBlendedOutput: the text the model typed
NonBlendedOutputTyped(winner, original_draft, refined_output, result) ==
    Get(result, "final_output", refined_output)

\* the non-blended branch: the exact original text of the version
NonBlendedOutput(winner, original_draft, refined_output, result) ==
    IF winner = "draft" THEN original_draft ELSE refined_output

\* mutant of TrustFallback: the two fixed scores exchanged
TrustFallbackScoresSwapped(refined_output) ==
    TrustResult("refined", 60, 50, refined_output, FALSE)

\* the result on None and on an exception inside the try
TrustFallback(refined_output) == TrustResult("refined", 50, 60, refined_output, FALSE)

\* trust_and_rank from the model call on (lines 214-296)
trust_and_rank(original_draft, refined_output, constraint_list, llm, blend_enabled) ==
    IF llm.kind # "tool" THEN TrustFallback(refined_output)
    ELSE LET result == llm.input
             model_winner == Get(result, "winner", "refined")
             model_blended == Get(result, "blended", FALSE)
             draft_score == Get(result, "draft_score", 50)
             refined_score == Get(result, "refined_score", 60)
             winner == IF model_blended /\ ~blend_enabled
                       THEN (IF refined_score >= draft_score THEN "refined" ELSE "draft")
                       ELSE model_winner
             blended == model_blended /\ blend_enabled
             final_output ==
                 IF model_blended /\ ~blend_enabled
                 THEN (IF winner = "refined" THEN refined_output ELSE original_draft)
                 ELSE IF model_blended THEN Get(result, "final_output", refined_output)
                 ELSE NonBlendedOutput(winner, original_draft, refined_output, result)
             override ==
                 /\ winner # "draft"
                 /\ ~blended
                 /\ check_structural_override(analyze(original_draft), analyze(refined_output),
                                              constraint_list) # "none"
         IN  IF draft_score \notin 0..ConfidenceMax \/ refined_score \notin 0..ConfidenceMax
             THEN TrustFallback(refined_output)     \* TrustResult(...) raises inside the try
             ELSE IF override
             THEN TrustResult("draft", draft_score, refined_score, original_draft, blended)
             ELSE TrustResult(winner, draft_score, refined_score, final_output, blended)

(***************************************************************************)
(* ThinkTwicePipeline.execute_pipeline (core/pipeline.py).                 *)
(*                                                                         *)
(* A text is a sequence: the draft is the sequence of its tokens, and a    *)
(* refinement that changes the candidate in iteration i appends i.         *)
(***************************************************************************)
GateMinPassPct == 100        \* Settings.gate_min_pass_rate = 1.0

Ev(name, it) == <<name, it>>

\* mutant of NextPc: Refine follows Critique, Verify is skipped
NextPcSkipsVerify(phase) ==
    CASE phase = "extract"   -> "decompose"
      [] phase = "decompose" -> "draft"
      [] phase = "draft"     -> "gate"
      [] phase = "loop"      -> "critique"
      [] phase = "critique"  -> "refine"
      [] phase = "verify"    -> "refine"
      [] phase = "refine"    -> "converge"
      [] phase = "trust"     -> "complete"
      [] phase = "complete"  -> "done"

\* the statement order of the body of execute_pipeline
NextPc(phase) ==
    CASE phase = "extract"   -> "decompose"
      [] phase = "decompose" -> "draft"
      [] phase = "draft"     -> "gate"
      [] phase = "loop"      -> "critique"
      [] phase = "critique"  -> "verify"
      [] phase = "verify"    -> "refine"
      [] phase = "refine"    -> "converge"
      [] phase = "trust"     -> "complete"
      [] phase = "complete"  -> "done"

\* max_iter = max_iterations or self.max_iterations; the route passes None (0
\* here) or a value >= 1
EffectiveMaxIter(override, self_max_iterations) ==
    IF override # 0 THEN override ELSE self_max_iterations

\* mutant of FastPath: the test inverted
FastPathInverted(g) == g.gate_decision # "skip"

\* fast_path = gate_result.gate_decision == "skip"
FastPath(g) == g.gate_decision = "skip"

\* the gate responses drawn inside a run: the model proposes skip, with one
\* sub-question for C1 and a confidence below or at the threshold
PipelineGateOutcomes ==
    {LLMNone, LLMRaise}
    \cup {Tool([sub_questions |-> <<[constraint_id |-> "C1", question |-> "q",
                                     answer |-> "a", passed |-> p]>>,
                gate_decision |-> "skip",
                gate_confidence |-> c,
                failing_constraints |-> <<>>]) :
            p \in BOOLEAN, c \in {GateThreshold - 1, GateThreshold}}

\* the convergence responses drawn inside a run: the model proposes continue,
\* with one check of C1 and a confidence below or at the threshold
PipelineConvOutcomes ==
    {LLMNone, LLMRaise}
    \cup {Tool([constraint_checks |-> <<[constraint_id |-> "C1", satisfied |-> b,
                                         confidence |-> 50]>>,
                decision |-> "continue",
                overall_confidence |-> c]) :
            b \in BOOLEAN, c \in {ConvergenceThreshold - 1, ConvergenceThreshold}}

\* Decomposer._fallback_result: C1 and C2, both high
Decomposer_fallback_result ==
    <<[id |-> "C1", type |-> "accuracy", priority |-> "high", verifiable |-> TRUE],
      [id |-> "C2", type |-> "content", priority |-> "high", verifiable |-> TRUE]>>

ConstraintType == {"content", "reasoning", "accuracy", "format", "tone"}

\* JSON null in a tool input
JsonNull == "null"

\* an entry that is a JSON string, number or null instead of an object
NotAnObject == [json |-> "string"]

\* c["id"] on an entry that is not a dict raises TypeError
IsObject(c) == "json" \notin DOMAIN c

\* Constraint(id=c["id"], type=ConstraintType(c["type"]), ...) raises KeyError
\* or ValueError
EntryRaisesKeyOrValueError(c) ==
    \/ {"id", "type", "description", "priority"} \ DOMAIN c # {}
    \/ c.type \notin ConstraintType
    \/ c.priority \notin ConstraintPriority

\* the Constraint built from an entry
ParseConstraint(c) ==
    [id |-> c.id, type |-> c.type, priority |-> c.priority,
     verifiable |-> Get(c, "verifiable", TRUE)]

\* the loop of decomposer.py:120-134 over the entries
ParseConstraints(entries) ==
    MapSeq(SelectSeq(entries, LAMBDA c : ~EntryRaisesKeyOrValueError(c)), ParseConstraint)

DecomposeResult(cs, fallback) == [kind |-> "result", constraints |-> cs, fallback |-> fallback]

\* mutant of Decomposer_decompose: an empty parsed list is returned as it is
DecomposeKeepsEmpty(llm) ==
    IF llm.kind # "tool" THEN DecomposeResult(Decomposer_fallback_result, TRUE)
    ELSE LET entries == Get(llm.input, "constraints", <<>>)
         IN  IF \E i \in 1..Len(entries) : ~IsObject(entries[i])
             THEN DecomposeResult(Decomposer_fallback_result, TRUE)
             ELSE IF Get(llm.input, "difficulty_estimate", "medium") = JsonNull
             THEN DecomposeResult(Decomposer_fallback_result, TRUE)
             ELSE DecomposeResult(ParseConstraints(entries), FALSE)

\* Decomposer.decompose from the try on (decomposer.py:107-156)
Decomposer_decompose(llm) ==
    IF llm.kind # "tool" THEN DecomposeResult(Decomposer_fallback_result, TRUE)
    ELSE LET entries == Get(llm.input, "constraints", <<>>)
         IN  IF \E i \in 1..Len(entries) : ~IsObject(entries[i])
             THEN DecomposeResult(Decomposer_fallback_result, TRUE)   \* TypeError, outer except
             ELSE IF ParseConstraints(entries) = <<>>
             THEN DecomposeResult(Decomposer_fallback_result, TRUE)
             ELSE IF Get(llm.input, "difficulty_estimate", "medium") = JsonNull
             THEN DecomposeResult(Decomposer_fallback_result, TRUE)   \* ValidationError
             ELSE DecomposeResult(ParseConstraints(entries), FALSE)

\* the decomposition responses drawn inside a run: a failed call, one medium
\* constraint, or two entries that carry the same id
PipelineDecomposeOutcomes ==
    {LLMNone, LLMRaise,
     Tool([constraints |-> <<[id |-> "C1", type |-> "content", description |-> "d",
                              priority |-> "medium"]>>]),
     Tool([constraints |-> <<[id |-> "C1", type |-> "content", description |-> "d",
                              priority |-> "medium"],
                             [id |-> "C1", type |-> "format", description |-> "d",
                              priority |-> "low"]>>])}

\* what Decompose hands on
DecomposeOutcomes ==
    {Decomposer_decompose(llm).constraints : llm \in PipelineDecomposeOutcomes}

ClaimId(i) == IF i = 1 THEN "V1" ELSE IF i = 2 THEN "V2" ELSE "V3"

ClaimVerdict == {"verified", "refuted", "unclear"}

\* mutant of Critic_fallback_critique: the failed critique passes every
\* constraint
CriticFallbackSatisfied(cs) ==
    [constraint_evaluations |->
         MapSeq(cs, LAMBDA c : [constraint_id |-> c.id,
                                verdict |-> "satisfied",
                                confidence |-> 30]),
     claims_to_verify |-> <<>>,
     overall_confidence |-> 30,
     strengths_to_preserve |-> <<>>]

\* Critic._fallback_critique
Critic_fallback_critique(cs) ==
    [constraint_evaluations |->
         MapSeq(cs, LAMBDA c : [constraint_id |-> c.id,
                                verdict |-> "partially_satisfied",
                                confidence |-> 30]),
     claims_to_verify |-> <<>>,
     overall_confidence |-> 30,
     strengths_to_preserve |-> <<>>]

\* a critique the model answered: every constraint evaluated, n claims
CritiqueOf(cs, n) ==
    [constraint_evaluations |->
         MapSeq(cs, LAMBDA c : [constraint_id |-> c.id,
                                verdict |-> "satisfied",
                                confidence |-> 90]),
     claims_to_verify |-> [i \in 1..n |-> ClaimId(i)],
     overall_confidence |-> 70,
     strengths_to_preserve |-> <<"s">>]

ConstraintVerdict == {"satisfied", "partially_satisfied", "violated"}

\* ConstraintEvaluation(constraint_id=ev["constraint_id"], ...) raises
\* KeyError or ValueError, and the evaluation is skipped
EvaluationParses(ev) ==
    /\ {"constraint_id", "verdict"} \subseteq DOMAIN ev
    /\ ev.verdict \in ConstraintVerdict
    /\ Get(ev, "confidence", 50) \in 0..ConfidenceMax

\* Critic.critique from the try on (critic.py:255-311); a claim to verify is
\* known by its id
Critic_critique(cs, llm) ==
    IF llm.kind # "tool" THEN Critic_fallback_critique(cs)
    ELSE IF Get(llm.input, "overall_confidence", 50) \notin 0..ConfidenceMax
    THEN Critic_fallback_critique(cs)       \* CritiqueResult(...) raises, outer except
    ELSE [constraint_evaluations |->
              MapSeq(SelectSeq(Get(llm.input, "constraint_evaluations", <<>>), EvaluationParses),
                     LAMBDA ev : [constraint_id |-> ev.constraint_id,
                                  verdict |-> ev.verdict,
                                  confidence |-> Get(ev, "confidence", 50)]),
          claims_to_verify |-> Get(llm.input, "claims_to_verify", <<>>),
          overall_confidence |-> Get(llm.input, "overall_confidence", 50),
          strengths_to_preserve |-> Get(llm.input, "strengths_to_preserve", <<>>)]

\* the critique responses drawn inside a run
PipelineCritiqueOutcomes(cs) ==
    {LLMNone, LLMRaise} \cup {Tool(CritiqueOf(cs, n)) : n \in 0..MaxClaims}

\* the verdicts drawn for a claim
VerdictsDrawn == ClaimVerdict \ {"unclear"}

\* Verifier.dual_verify: one result per claim, in order
VerifyOutcomes(claims) ==
    {[i \in 1..Len(claims) |-> [claim_id |-> claims[i], combined_verdict |-> vs[i]]] :
        vs \in [1..Len(claims) -> VerdictsDrawn]}

Init ==
    /\ pc \in {"extract", "decompose"}          \* request.mode == URL or not
    /\ all_null = TRUE
    /\ max_iter \in {EffectiveMaxIter(o, m) : o \in 0..MaxIterations, m \in 1..MaxIterations}
    /\ constraints = <<>>
    /\ draft_content = <<>>
    /\ gate_result = NoResult
    /\ current_draft = <<>>
    /\ all_verifications = <<>>
    /\ iteration = 0
    /\ fast_path = FALSE
    /\ critique_result = NoResult
    /\ refine_result = NoResult
    /\ convergence_result = NoResult
    /\ trust_result = NoResult
    /\ events = <<>>
    /\ calls = <<>>
    /\ call = NoCall
    /\ ret = NoResult
    /\ VerifierIdle

\* pipeline.py:90-111
Extract ==
    /\ pc = "extract"
    /\ \E outcome \in {"ok", "ValueError", "raise"} :
          CASE outcome = "ok" ->
                  /\ events' = events \o <<Ev("step_start:extract", 0),
                                           Ev("step_complete:extract", 0)>>
                  /\ pc' = NextPc("extract")
            [] outcome = "ValueError" ->
                  /\ events' = events \o <<Ev("step_start:extract", 0),
                                           Ev("step_complete:extract:error", 0)>>
                  /\ pc' = "done"
            [] outcome = "raise" ->
                  /\ events' = Append(events, Ev("step_start:extract", 0))
                  /\ pc' = "raised"
    /\ UNCHANGED <<all_null, max_iter, constraints, draft_content, gate_result, current_draft,
                   all_verifications, iteration, fast_path, critique_result,
                   refine_result, convergence_result, trust_result, calls, call, ret>>
    /\ UNCHANGED verifier_vars

\* pipeline.py:113-140
Decompose ==
    /\ pc = "decompose"
    /\ \E llm \in PipelineDecomposeOutcomes :
          /\ constraints' = Decomposer_decompose(llm).constraints
          /\ all_null' = (all_null /\ llm = LLMNone)
    /\ events' = events \o <<Ev("step_start:decompose", 0), Ev("decompose_complete", 0)>>
    /\ calls' = Append(calls, <<"decompose", 0>>)
    /\ pc' = NextPc("decompose")
    /\ UNCHANGED <<max_iter, draft_content, gate_result, current_draft,
                   all_verifications, iteration, fast_path, critique_result,
                   refine_result, convergence_result, trust_result, call, ret>>
    /\ UNCHANGED verifier_vars

\* pipeline.py:142-163: the token stream yields its MaxTokens tokens, or raises
\* after n of them
Draft ==
    /\ pc = "draft"
    /\ \E n \in 0..MaxTokens, ok \in BOOLEAN :
          LET streamed == events \o <<Ev("step_start:draft", 0)>>
                                 \o [i \in 1..n |-> Ev("step_stream", 0)]
          IN  /\ ok => n = MaxTokens
              /\ draft_content' = [i \in 1..n |-> 0]
              /\ IF ok
                 THEN /\ events' = Append(streamed, Ev("step_complete:draft", 0))
                      /\ pc' = NextPc("draft")
                 ELSE /\ events' = streamed
                      /\ pc' = "raised"
    /\ calls' = Append(calls, <<"draft", 0>>)
    /\ UNCHANGED <<all_null, max_iter, constraints, gate_result, current_draft,
                   all_verifications, iteration, fast_path, critique_result,
                   refine_result, convergence_result, trust_result, call, ret>>
    /\ UNCHANGED verifier_vars

\* pipeline.py:165-206
Gate ==
    /\ pc = "gate"
    /\ \E llm \in PipelineGateOutcomes :
          LET g == Gatekeeper_gate(constraints, llm, GateThreshold, GateMinPassPct)
          IN  /\ gate_result' = g
              /\ fast_path' = FastPath(g)
              /\ events' = events \o <<Ev("step_start:gate", 0), Ev("gate_decision", 0)>>
                                  \o (IF FastPath(g) THEN <<Ev("step_complete:gate", 0)>>
                                      ELSE <<>>)
              /\ pc' = IF FastPath(g) THEN "trust" ELSE "loop"
              /\ all_null' = (all_null /\ llm = LLMNone)
    /\ current_draft' = draft_content
    /\ all_verifications' = <<>>
    /\ iteration' = 0
    /\ calls' = Append(calls, <<"gate", 0>>)
    /\ UNCHANGED <<max_iter, constraints, draft_content, critique_result,
                   refine_result, convergence_result, trust_result, call, ret>>
    /\ UNCHANGED verifier_vars

\* pipeline.py:208-213
IterationStart ==
    /\ pc = "loop"
    /\ iteration <= MaxIterations + 1
    /\ iteration' = iteration + 1
    /\ events' = Append(events, Ev("iteration_start", iteration + 1))
    /\ pc' = NextPc("loop")
    /\ UNCHANGED <<all_null, max_iter, constraints, draft_content, gate_result, current_draft,
                   all_verifications, fast_path, critique_result, refine_result,
                   convergence_result, trust_result, calls, call, ret>>
    /\ UNCHANGED verifier_vars

\* pipeline.py:215-247; call keeps the arguments of critic.critique and
\* whether its model call failed
Critique ==
    /\ pc = "critique"
    /\ \E llm \in PipelineCritiqueOutcomes(constraints) :
          /\ critique_result' = Critic_critique(constraints, llm)
          /\ call' = [fn |-> "critique", iteration |-> iteration,
                      draft |-> current_draft,
                      failing_constraints |-> gate_result.failing_constraints,
                      failed |-> llm.kind # "tool"]
          /\ all_null' = (all_null /\ llm = LLMNone)
    /\ events' = events \o <<Ev("step_start:critique", iteration)>>
                        \o [i \in 1..Len(critique_result'.constraint_evaluations) |->
                               Ev("constraint_verdict", iteration)]
                        \o <<Ev("step_complete:critique", iteration)>>
    /\ calls' = Append(calls, <<"critique", iteration>>)
    /\ pc' = NextPc("critique")
    /\ UNCHANGED <<max_iter, constraints, draft_content, gate_result, current_draft,
                   all_verifications, iteration, fast_path, refine_result,
                   convergence_result, trust_result, ret>>
    /\ UNCHANGED verifier_vars

\* pipeline.py:249-290: dual_verify returns, or raises and leaves []
Verify ==
    /\ pc = "verify"
    /\ \E verifications \in VerifyOutcomes(critique_result.claims_to_verify) \cup {<<>>} :
          /\ all_verifications' = verifications
          /\ events' = events \o <<Ev("step_start:verify", iteration)>>
                              \o [i \in 1..Len(verifications) |-> Ev("verify_claim", iteration)]
                              \o <<Ev("step_complete:verify", iteration)>>
    /\ calls' = Append(calls, <<"verify", iteration>>)
    /\ pc' = NextPc("verify")
    /\ UNCHANGED <<all_null, max_iter, constraints, draft_content, gate_result, current_draft,
                   iteration, fast_path, critique_result, refine_result,
                   convergence_result, trust_result, call, ret>>
    /\ UNCHANGED verifier_vars

\* mutant of RefineFallback: the failed refinement hands on an empty text
RefineFallbackEmpty(draft, critique) ==
    [refined_response |-> <<>>,
     changes_made |-> <<>>,
     confidence_after |-> critique.overall_confidence]

\* the RefineResult of a failed refinement (refiner.py:256-263, 291-297;
\* pipeline.py:307-314)
RefineFallback(draft, critique) ==
    [refined_response |-> draft,
     changes_made |-> <<>>,
     confidence_after |-> critique.overall_confidence]

\* Refiner.selective_refine from the try on (refiner.py:248-297)
Refiner_selective_refine(draft, critique, llm) ==
    IF llm.kind # "tool" THEN RefineFallback(draft, critique)
    ELSE IF Get(llm.input, "confidence_after", critique.overall_confidence)
               \notin 0..ConfidenceMax
    THEN RefineFallback(draft, critique)        \* RefineResult(...) raises, outer except
    ELSE [refined_response |-> Get(llm.input, "refined_response", draft),
          changes_made |-> Get(llm.input, "changes_made", <<>>),
          confidence_after |-> Get(llm.input, "confidence_after",
                                   critique.overall_confidence)]

\* the refinement responses drawn inside a run: a failed call, or a text
\* that the iteration changed
PipelineRefineOutcomes(draft, it) ==
    {LLMNone, LLMRaise,
     Tool([refined_response |-> Append(draft, it),
           changes_made |-> <<"c">>,
           confidence_after |-> 90])}

\* pipeline.py:292-326; call keeps the candidate that entered and whether
\* the model call failed
Refine ==
    /\ pc = "refine"
    /\ \E llm \in PipelineRefineOutcomes(current_draft, iteration) :
          /\ refine_result' = Refiner_selective_refine(current_draft, critique_result, llm)
          /\ call' = [fn |-> "selective_refine", iteration |-> iteration,
                      draft |-> current_draft, failed |-> llm.kind # "tool"]
          /\ all_null' = (all_null /\ llm = LLMNone)
    /\ events' = events \o <<Ev("step_start:refine", iteration),
                             Ev("step_complete:refine", iteration)>>
    /\ calls' = Append(calls, <<"refine", iteration>>)
    /\ pc' = NextPc("refine")
    /\ UNCHANGED <<max_iter, constraints, draft_content, gate_result, current_draft,
                   all_verifications, iteration, fast_path, critique_result,
                   convergence_result, trust_result, ret>>
    /\ UNCHANGED verifier_vars

\* mutant of LeavesLoop: only a forced stop ends the loop
LeavesLoopOnMaxOnly(c) == c # NoResult /\ c.decision = "max_iterations_reached"

\* if convergence_result is None or convergence_result.decision != CONTINUE: break
LeavesLoop(c) == c = NoResult \/ c.decision # "continue"

\* mutant of NextCandidate: the text handed on is not the one refined
NextCandidateMarked(refined) == Append(refined.refined_response, 0)

\* current_draft = refine_result.refined_response (pipeline.py:352)
NextCandidate(refined) == refined.refined_response

\* pipeline.py:328-355: check_convergence returns
Converge ==
    /\ pc = "converge"
    /\ \E llm \in PipelineConvOutcomes :
          LET c == check_convergence(constraints, iteration, max_iter,
                                     ConvergenceThreshold, llm)
          IN  /\ convergence_result' = c
              /\ call' = [fn |-> "check_convergence",
                          text |-> refine_result.refined_response,
                          constraints |-> constraints,
                          iteration |-> iteration, max_iterations |-> max_iter,
                          threshold |-> ConvergenceThreshold, llm |-> llm]
              /\ ret' = c
              /\ pc' = IF LeavesLoop(c) THEN "trust" ELSE "loop"
              /\ all_null' = (all_null /\ llm = LLMNone)
    /\ events' = Append(events, Ev("iteration_complete", iteration))
    /\ current_draft' = NextCandidate(refine_result)
    /\ calls' = Append(calls, <<"converge", iteration>>)
    /\ UNCHANGED <<max_iter, constraints, draft_content, gate_result,
                   all_verifications, iteration, fast_path, critique_result,
                   refine_result, trust_result>>
    /\ UNCHANGED verifier_vars

\* pipeline.py:337-339: check_convergence raises, convergence_result = None
ConvergeRaises ==
    /\ pc = "converge"
    /\ convergence_result' = NoResult
    /\ call' = [fn |-> "check_convergence",
                text |-> refine_result.refined_response,
                constraints |-> constraints,
                iteration |-> iteration, max_iterations |-> max_iter,
                threshold |-> ConvergenceThreshold, llm |-> [kind |-> "crash"]]
    /\ ret' = NoResult
    /\ pc' = IF LeavesLoop(NoResult) THEN "trust" ELSE "loop"
    /\ all_null' = FALSE
    /\ events' = Append(events, Ev("iteration_complete", iteration))
    /\ current_draft' = NextCandidate(refine_result)
    /\ calls' = Append(calls, <<"converge", iteration>>)
    /\ UNCHANGED <<max_iter, constraints, draft_content, gate_result,
                   all_verifications, iteration, fast_path, critique_result,
                   refine_result, trust_result>>
    /\ UNCHANGED verifier_vars

\* the outcomes of the trust comparison drawn inside a run: the model call
\* fails, trust_and_rank itself raises, or the model names a winner that
\* stands
PipelineTrustOutcomes ==
    {LLMNone, LLMRaise, [kind |-> "crash"]}
    \cup {Tool([winner |-> w, blended |-> FALSE, draft_score |-> 80, refined_score |-> 70]) :
            w \in {"draft", "refined"}}

\* pipeline.py:365-382: the result of trust_and_rank, or the TrustResult built
\* in the except branch
PipelineTrustResult(original_draft, refined_output, constraint_list, llm) ==
    IF llm.kind = "crash"
    THEN TrustResult("refined", 50, 60, refined_output, FALSE)
    ELSE IF llm.kind # "tool"
    THEN trust_and_rank(original_draft, refined_output, constraint_list, llm, TRUE)
    ELSE TrustResult(llm.input.winner, llm.input.draft_score, llm.input.refined_score,
                     NonBlendedOutput(llm.input.winner, original_draft, refined_output,
                                      llm.input),
                     FALSE)

\* pipeline.py:357-397; token texts carry no surrounding whitespace, so the
\* texts are identical after strip() exactly when they are equal
Trust ==
    /\ pc = "trust"
    /\ IF draft_content = current_draft
       THEN /\ trust_result' = TrustResult("refined", 75, 75, current_draft, FALSE)
            /\ call' = [fn |-> "trust_and_rank", original_draft |-> draft_content,
                        refined_output |-> current_draft, llm |-> LLMNone, llm_calls |-> 0]
            /\ all_null' = all_null
       ELSE \E llm \in PipelineTrustOutcomes :
               /\ trust_result' = PipelineTrustResult(draft_content, current_draft,
                                                      constraints, llm)
               /\ call' = [fn |-> "trust_and_rank", original_draft |-> draft_content,
                           refined_output |-> current_draft, llm |-> llm, llm_calls |-> 1]
               /\ all_null' = (all_null /\ llm = LLMNone)
    /\ ret' = trust_result'
    /\ events' = events \o <<Ev("step_start:trust", iteration), Ev("trust_decision", iteration)>>
    /\ calls' = Append(calls, <<"trust", iteration>>)
    /\ pc' = NextPc("trust")
    /\ UNCHANGED <<max_iter, constraints, draft_content, gate_result, current_draft,
                   all_verifications, iteration, fast_path, critique_result,
                   refine_result, convergence_result>>
    /\ UNCHANGED verifier_vars

\* the payload of pipeline_complete, pipeline.py:414-433
PipelineCompletePayload ==
    [final_output |-> trust_result.final_output,
     gate_decision |-> gate_result.gate_decision,
     fast_path |-> fast_path,
     iterations_used |-> iteration,
     trust_winner |-> trust_result.winner,
     constraints_total |-> Len(constraints),
     claims_checked |-> Len(all_verifications)]

\* pipeline.py:399-433
Complete ==
    /\ pc = "complete"
    /\ events' = Append(events, Ev("pipeline_complete", iteration))
    /\ pc' = NextPc("complete")
    /\ UNCHANGED <<all_null, max_iter, constraints, draft_content, gate_result, current_draft,
                   all_verifications, iteration, fast_path, critique_result,
                   refine_result, convergence_result, trust_result, calls, call, ret>>
    /\ UNCHANGED verifier_vars

Next ==
    \/ Extract
    \/ Decompose
    \/ Draft
    \/ Gate
    \/ IterationStart
    \/ Critique
    \/ Verify
    \/ Refine
    \/ Converge
    \/ ConvergeRaises
    \/ Trust
    \/ Complete

Spec == Init /\ [][Next]_vars


(***************************************************************************)
(* Properties of a run (Spec).                                             *)
(***************************************************************************)
Last(s) == s[Len(s)]

EventNames == {events[i][1] : i \in 1..Len(events)}

Phases == {calls[i][1] : i \in 1..Len(calls)}

Terminated == pc \in {"done", "raised"}

\* the call b may directly follow the call a
Follows(a, b) ==
    \/ a = <<"decompose", 0>> /\ b = <<"draft", 0>>
    \/ a = <<"draft", 0>> /\ b = <<"gate", 0>>
    \/ a = <<"gate", 0>> /\ b \in {<<"critique", 1>>, <<"trust", 0>>}
    \/ /\ a[2] \in 1..(MaxIterations + 2)
       /\ \/ a[1] = "critique" /\ b = <<"verify", a[2]>>
          \/ a[1] = "verify" /\ b = <<"refine", a[2]>>
          \/ a[1] = "refine" /\ b = <<"converge", a[2]>>
          \/ a[1] = "converge" /\ b \in {<<"critique", a[2] + 1>>, <<"trust", a[2]>>}

\* iteration_start, iteration_complete and the start of Trust, in stream order
IterationMarks ==
    SelectSeq(events, LAMBDA e : e[1] \in {"iteration_start", "iteration_complete",
                                           "step_start:trust"})

\* C1: the phases start in the order Decompose, Draft, Gate, (Critique, Verify,
\* Refine, Converge)*, Trust; Verify starts with the critique of its own
\* iteration returned, Refine starts with the full result set of Verify of its
\* own iteration (one result per claim, or none when dual_verify failed), and
\* every iteration_start(i) is followed by iteration_complete(i) before the next
\* iteration_start or the start of Trust.
PhaseOrder ==
    /\ calls # <<>> => calls[1] = <<"decompose", 0>>
    /\ \A k \in 1..(Len(calls) - 1) : Follows(calls[k], calls[k + 1])
    /\ pc = "verify" =>
          /\ Last(calls) = <<"critique", iteration>>
          /\ critique_result # NoResult
    /\ pc = "refine" =>
          /\ Last(calls) = <<"verify", iteration>>
          /\ \/ all_verifications = <<>>
             \/ /\ Len(all_verifications) = Len(critique_result.claims_to_verify)
                /\ \A i \in 1..Len(all_verifications) :
                      all_verifications[i].claim_id = critique_result.claims_to_verify[i]
    /\ LET marks == IterationMarks
       IN  \A k \in 1..Len(marks) :
               marks[k][1] = "iteration_start" =>
                   \/ k = Len(marks) /\ pc \in {"critique", "verify", "refine", "converge"}
                   \/ /\ k < Len(marks)
                      /\ marks[k + 1] = Ev("iteration_complete", marks[k][2])

\* a complete run of two iterations with a verified claim
PhaseOrderWitness ==
    /\ pc = "done"
    /\ iteration = 2
    /\ Len(all_verifications) = 1
    /\ Last(events) = Ev("pipeline_complete", 2)

\* C2: the iteration counter starts at 0, grows by exactly 1 at each
\* iteration_start, never exceeds max_iterations, and the loop is not entered
\* again once the cap is reached.
IterationBounded ==
    /\ iteration <= max_iter
    /\ SelectSeq(events, LAMBDA e : e[1] = "iteration_start")
          = [i \in 1..iteration |-> Ev("iteration_start", i)]
    /\ pc = "loop" => iteration < max_iter
    /\ events = <<>> => iteration = 0

\* the cap is reached with the model still asking to continue, and the run
\* goes on to Trust
IterationBoundedWitness ==
    /\ pc = "trust"
    /\ call.fn = "check_convergence"
    /\ max_iter = MaxIterations
    /\ iteration = max_iter
    /\ call.llm.kind = "tool"
    /\ call.llm.input.decision = "continue"
    /\ convergence_result.decision = "max_iterations_reached"

\* C3: no upstream failure propagates out of the run: the event stream ends
\* with pipeline_complete or with an explicit error event.
StreamEndsCompleteOrError ==
    Terminated =>
        /\ pc = "done"
        /\ events # <<>>
        /\ Last(events)[1] \in {"pipeline_complete", "step_complete:extract:error"}

\* C4: gate decision skip: no iteration at all, Trust still runs, and
\* pipeline_complete reports fast_path = true and iterations_used = 0; gate
\* decision refine: a full iteration has run when Trust starts.
FastPathRule ==
    /\ (gate_result # NoResult /\ gate_result.gate_decision = "skip") =>
          /\ iteration = 0
          /\ Phases \cap {"critique", "verify", "refine", "converge"} = {}
          /\ EventNames \cap {"iteration_start", "step_start:critique",
                              "step_start:verify", "step_start:refine",
                              "iteration_complete"} = {}
          /\ pc \in {"trust", "complete", "done"}
          /\ pc \in {"complete", "done"} => "trust" \in Phases
          /\ pc = "done" =>
                /\ Last(events)[1] = "pipeline_complete"
                /\ PipelineCompletePayload.fast_path
                /\ PipelineCompletePayload.iterations_used = 0
    /\ (gate_result # NoResult /\ gate_result.gate_decision = "refine"
            /\ "trust" \in Phases) =>
          /\ iteration >= 1
          /\ \E k \in 1..(Len(calls) - 4) :
                /\ calls[k] = <<"critique", 1>>
                /\ calls[k + 1] = <<"verify", 1>>
                /\ calls[k + 2] = <<"refine", 1>>
                /\ calls[k + 3] = <<"converge", 1>>
          /\ \E k \in 1..Len(events) : events[k] = Ev("iteration_complete", 1)
          /\ pc = "done" => ~PipelineCompletePayload.fast_path

\* a run on the fast path, completed
FastPathWitness ==
    /\ pc = "done"
    /\ gate_result # NoResult
    /\ gate_result.gate_decision = "skip"
    /\ Last(events)[1] = "pipeline_complete"

\* C7: a failed convergence call (None or an exception) gives converged with
\* confidence 0, satisfied_count 0 and no unsatisfied constraint, and the
\* orchestrator leaves the loop after that iteration.
ConvergenceFailSafe ==
    (call.fn = "check_convergence" /\ call.llm.kind \in {"none", "raise"}) =>
        /\ ret.decision = "converged"
        /\ ret.confidence = 0
        /\ ret.satisfied_count = 0
        /\ ret.unsatisfied_constraints = <<>>
        /\ convergence_result = ret
        /\ pc \in {"trust", "complete", "done"}
        /\ iteration = call.iteration
        /\ Last(calls) \in {<<"converge", call.iteration>>, <<"trust", call.iteration>>}

\* the call fails below the cap, and the run ends after that iteration
ConvergenceFailSafeWitness ==
    /\ call.fn = "check_convergence"
    /\ call.llm.kind = "raise"
    /\ call.iteration < call.max_iterations
    /\ pc = "trust"

(***************************************************************************)
(* Properties of check_convergence (ConvSpec).                             *)
(***************************************************************************)
Returned == ret # NoResult

ResponseChecks ==
    IF call.llm.kind = "tool" THEN Get(call.llm.input, "constraint_checks", <<>>) ELSE <<>>

\* the response reports a high-priority constraint unsatisfied
ReportsHighUnsatisfied ==
    \E i \in 1..Len(ResponseChecks) :
        /\ ~Get(ResponseChecks[i], "satisfied", FALSE)
        /\ "constraint_id" \in DOMAIN ResponseChecks[i]
        /\ ResponseChecks[i].constraint_id \in HighPriorityIds(call.constraints)

\* C5: with iteration >= max_iterations the decision is max_iterations_reached
\* for every model output, no response included.
ForcedAtCap ==
    (Returned /\ call.iteration >= call.max_iterations) =>
        ret.decision = "max_iterations_reached"

\* C6: below the cap and with a response, the decision is converged iff no
\* high-priority constraint is reported unsatisfied and overall_confidence >=
\* threshold; a high-priority constraint reported unsatisfied gives continue.
ConvergedIffThresholds ==
    (Returned /\ call.llm.kind = "tool" /\ call.iteration < call.max_iterations) =>
        /\ ret.decision = "converged" <=>
              /\ ~ReportsHighUnsatisfied
              /\ Get(call.llm.input, "overall_confidence", 0) >= call.threshold
        /\ ReportsHighUnsatisfied => ret.decision = "continue"

(***************************************************************************)
(* Properties of Gatekeeper.gate (GateSpec).  A sub-question of a response *)
(* is an entry of sub_questions that carries the four SubQuestion fields.  *)
(***************************************************************************)
ResponseSubQuestions ==
    IF call.llm.kind = "tool"
    THEN SelectSeq(Get(call.llm.input, "sub_questions", <<>>),
                   LAMBDA e : SubQuestionKeys \subseteq DOMAIN e)
    ELSE <<>>

ResponseHighFailed ==
    \E i \in 1..Len(ResponseSubQuestions) :
        /\ ~ResponseSubQuestions[i].passed
        /\ \E j \in 1..Len(call.constraints) :
              /\ call.constraints[j].id = ResponseSubQuestions[i].constraint_id
              /\ call.constraints[j].priority = "high"

ResponsePassed ==
    Cardinality({i \in 1..Len(ResponseSubQuestions) : ResponseSubQuestions[i].passed})

ResponseConfidence == Get(call.llm.input, "gate_confidence", 0)

\* C8: a failed sub-question for a high-priority constraint gives refine, also
\* when the model proposed skip with a confidence at or above the threshold.
HighFailForcesRefine ==
    (Returned /\ ResponseHighFailed) => ret.gate_decision = "refine"

\* only the high-priority failure stands against the skip the model proposed:
\* half of the sub-questions pass, which the pass rate of 50% allows
HighFailForcesRefineWitness ==
    /\ Returned
    /\ ResponseHighFailed
    /\ call.gate_min_pass_pct = 50
    /\ Len(ResponseSubQuestions) = 2
    /\ ResponsePassed = 1
    /\ Get(call.llm.input, "gate_decision", "refine") = "skip"
    /\ ResponseConfidence = GateThreshold
    /\ ret.gate_confidence = GateThreshold

\* C9: with a response, the decision is refine if a high-priority sub-question
\* failed or passed/total < gate_min_pass_rate or confidence < gate_threshold,
\* and skip otherwise, whatever the model proposed and also without any valid
\* sub-question.
GateDecisionRule ==
    (Returned /\ call.llm.kind = "tool") =>
        ret.gate_decision =
            IF \/ ResponseHighFailed
               \/ ResponsePassed * 100 < call.gate_min_pass_pct * Len(ResponseSubQuestions)
               \/ ResponseConfidence < call.gate_threshold
            THEN "refine"
            ELSE "skip"

\* C10: a failed gate call (None or an exception) gives refine with confidence
\* 0, no sub-question and every constraint id failing; never skip.
GateFailsClosed ==
    (Returned /\ call.llm.kind \in {"none", "raise"}) =>
        /\ ret.gate_decision = "refine"
        /\ ret.gate_confidence = 0
        /\ ret.sub_questions = <<>>
        /\ ret.failing_constraints
              = [i \in 1..Len(call.constraints) |-> call.constraints[i].id]

GateFailsClosedWitness ==
    /\ Returned
    /\ call.llm.kind = "raise"
    /\ Len(call.constraints) = 2
    /\ ret.failing_constraints = <<"C1", "C2">>


(***************************************************************************)
(* Verifier (core/verifier.py).  A claim object is [id, claim]; the claim  *)
(* text is the number of the run whose critique produced it.               *)
(***************************************************************************)
\* mutant of combine_verdicts: web unclear, self decided is rated as web
\* decided, self unclear
CombineVerdictsDisagreementFlat(web_verdict, self_verdict) ==
    IF self_verdict = "none"
    THEN <<web_verdict, IF web_verdict \in {"verified", "refuted"} THEN 65 ELSE 30>>
    ELSE IF web_verdict = self_verdict
    THEN <<web_verdict, IF web_verdict \in {"verified", "refuted"} THEN 90 ELSE 40>>
    ELSE IF web_verdict = "verified" /\ self_verdict = "unclear" THEN <<"verified", 60>>
    ELSE IF web_verdict = "refuted" /\ self_verdict = "unclear" THEN <<"refuted", 60>>
    ELSE IF web_verdict = "unclear" /\ self_verdict = "verified" THEN <<"verified", 60>>
    ELSE IF web_verdict = "unclear" /\ self_verdict = "refuted" THEN <<"refuted", 60>>
    ELSE <<"unclear", 25>>

\* _combine_verdicts; self_verdict None is "none"
combine_verdicts(web_verdict, self_verdict) ==
    IF self_verdict = "none"
    THEN <<web_verdict, IF web_verdict \in {"verified", "refuted"} THEN 65 ELSE 30>>
    ELSE IF web_verdict = self_verdict
    THEN <<web_verdict, IF web_verdict \in {"verified", "refuted"} THEN 90 ELSE 40>>
    ELSE IF web_verdict = "verified" /\ self_verdict = "unclear" THEN <<"verified", 60>>
    ELSE IF web_verdict = "refuted" /\ self_verdict = "unclear" THEN <<"refuted", 60>>
    ELSE IF web_verdict = "unclear" /\ self_verdict = "verified" THEN <<"verified", 45>>
    ELSE IF web_verdict = "unclear" /\ self_verdict = "refuted" THEN <<"refuted", 45>>
    ELSE <<"unclear", 25>>

\* the claims of run r: n claim objects
ClaimsOf(r, n) == [i \in 1..n |-> [id |-> ClaimId(i), claim |-> r]]

\* self._results_v2
results_v2 == heap[results_ref]

\* the verdict strings a track's model call may give
VerdictStrings == ClaimVerdict \cup {"invalid"}

\* what the submit_verdict / submit_self_verdict call gives a track
TrackLLMOutcomes ==
    {LLMNone, LLMRaise, Tool([explanation |-> "e"])}
    \cup {Tool([verdict |-> v, explanation |-> "e"]) : v \in VerdictStrings}

\* verdict_data.get("verdict", "unclear") if verdict_data else "unclear"
VerdictOf(llm) == IF llm.kind = "tool" THEN Get(llm.input, "verdict", "unclear") ELSE "unclear"

\* mutant of WebVerified: the flag set whatever the search gave
WebVerifiedAlways(found) == TRUE

\* _web_verify_claim: "web_verified" of the branch taken by `if search_results`
WebVerified(found) == found

\* _web_verify_claim: "source", search_results[0].url or None
WebSource(found) == IF found THEN "url" ELSE "none"

\* mutant of FailureResult: the failed claim is given the self-less row of the
\* table
FailureResultFromTable(claim_obj) ==
    [claim_id |-> claim_obj.id,
     claim |-> claim_obj.claim,
     web_verdict |-> "unclear",
     web_source |-> "none",
     self_verdict |-> "none",
     combined_verdict |-> "unclear",
     combined_confidence |-> 30,
     web_verified |-> FALSE]

\* the except branch of dual_verify
FailureResult(claim_obj) ==
    [claim_id |-> claim_obj.id,
     claim |-> claim_obj.claim,
     web_verdict |-> "unclear",
     web_source |-> "none",
     self_verdict |-> "none",
     combined_verdict |-> "unclear",
     combined_confidence |-> 0,
     web_verified |-> FALSE]

\* mutant of AppendFailure: the failed claim is left out of the batch
DropFailure(results, claim_obj) == results

\* self._results_v2.append(VerificationResultV2(...)) of the except branch
AppendFailure(results, claim_obj) == Append(results, FailureResult(claim_obj))

\* _verify_single_claim raises: the web coroutine raised, or ClaimVerdict(...)
\* rejects a verdict string
SingleClaimRaises(web, self_result, self_verify_enabled) ==
    \/ web.st = "raised"
    \/ web.verdict \notin ClaimVerdict
    \/ self_verify_enabled /\ self_result.verdict \notin ClaimVerdict

\* _verify_single_claim, lines 233-251, from the two results
verify_single_claim(claim_obj, web, self_result, self_verify_enabled) ==
    LET web_verdict == web.verdict
        self_verdict == IF self_verify_enabled THEN self_result.verdict ELSE "none"
        combined == combine_verdicts(web_verdict, self_verdict)
    IN  [claim_id |-> claim_obj.id,
         claim |-> claim_obj.claim,
         web_verdict |-> web_verdict,
         web_source |-> WebSource(web.found),
         self_verdict |-> self_verdict,
         combined_verdict |-> combined[1],
         combined_confidence |-> combined[2],
         web_verified |-> WebVerified(web.found)]

\* mutant of StartsSelfWithWeb: the tracks always run one after the other
StartsSelfAfterWeb(self_verify_enabled, self_verify_parallel) == FALSE

\* if self.self_verify_enabled and self.self_verify_parallel: asyncio.gather
StartsSelfWithWeb(self_verify_enabled, self_verify_parallel) ==
    self_verify_enabled /\ self_verify_parallel

\* SELF_VERIFY_USER_PROMPT.format(claim=claim): the fixed text and the claim
SelfVerifyUserPrompt(claim) == <<"Claim", claim>>

\* mutant of self_verify_claim: the answer of the model is not read
SelfVerifyAlwaysUnclear(claim, llm) ==
    [verdict |-> "unclear", derivation |-> "Self-verification failed"]

\* Verifier.self_verify_claim from the answer of its model call: None and an
\* exception give the failure dict
self_verify_claim(claim, llm) ==
    IF llm.kind = "tool"
    THEN [verdict |-> Get(llm.input, "verdict", "unclear"),
          derivation |-> Get(llm.input, "derivation", "")]
    ELSE [verdict |-> "unclear", derivation |-> "Self-verification failed"]

(***************************************************************************)
(* dual_verify, shared by VerifySpec and SharedSpec.                       *)
(***************************************************************************)
\* dual_verify up to its first await: self._results_v2 = [], then return []
\* for no claims or enter the loop
StartRun(r) ==
    /\ runs[r].pc = "called"
    /\ heap' = Append(heap, <<>>)
    /\ results_ref' = Len(heap) + 1
    /\ runs' = [runs EXCEPT ![r] =
                  IF runs[r].claims = <<>>
                  THEN [@ EXCEPT !.pc = "returned", !.ret = [kind |-> "value", value |-> <<>>]]
                  ELSE [@ EXCEPT !.pc = "begin", !.idx = 1]]
    /\ UNCHANGED <<tracks, call, ret, pipeline_vars>>

\* the loop after the result of the claim at idx is appended: the next claim,
\* or return self._results_v2
AfterAppend(run) ==
    IF run.idx < Len(run.claims)
    THEN [run EXCEPT !.idx = @ + 1, !.pc = "begin"]
    ELSE [run EXCEPT !.pc = "returned", !.ret = [kind |-> "ref", ref |-> results_ref]]

\* the list a run holds after dual_verify returned
Received(r) ==
    IF runs[r].ret.kind = "ref" THEN heap[runs[r].ret.ref]
    ELSE IF runs[r].ret.kind = "value" THEN runs[r].ret.value
    ELSE <<>>

(***************************************************************************)
(* VerifySpec: run 1 calls dual_verify; each track is a coroutine that     *)
(* suspends at its search and model calls.                                 *)
(***************************************************************************)
VerifyInit ==
    /\ \E n \in 0..MaxVerifyClaims, e \in BOOLEAN, p \in BOOLEAN :
          /\ call = [fn |-> "dual_verify", claims |-> ClaimsOf(1, n),
                     self_verify_enabled |-> e, self_verify_parallel |-> p]
          /\ runs = [r \in Runs |-> IF r = 1 THEN [IdleRun EXCEPT !.claims = ClaimsOf(1, n),
                                                                 !.pc = "called"]
                                    ELSE IdleRun]
    /\ heap = <<(<<>>)>>
    /\ results_ref = 1
    /\ tracks = [k \in 1..MaxVerifyClaims |-> [web |-> IdleTrack, self |-> IdleTrack]]
    /\ ret = NoResult
    /\ PipelineIdle

\* _verify_single_claim is entered for the claim at idx: the web coroutine
\* runs to its search call and, under gather, the self coroutine to its model
\* call
BeginClaim ==
    /\ call.fn = "dual_verify"
    /\ runs[1].pc = "begin"
    /\ tracks' = [tracks EXCEPT ![runs[1].idx] =
                     [web |-> [IdleTrack EXCEPT !.st = "searching"],
                      self |-> IF StartsSelfWithWeb(call.self_verify_enabled,
                                                    call.self_verify_parallel)
                               THEN [IdleTrack EXCEPT
                                        !.st = "running",
                                        !.input = SelfVerifyUserPrompt(
                                                      runs[1].claims[runs[1].idx].claim)]
                               ELSE IdleTrack]]
    /\ runs' = [runs EXCEPT ![1].pc = "await"]
    /\ UNCHANGED <<heap, results_ref, call, ret, pipeline_vars>>

\* self.search.query returns: results, or an empty list or None
WebSearchReturns ==
    /\ call.fn = "dual_verify"
    /\ \E k \in 1..MaxVerifyClaims, found \in BOOLEAN :
          /\ tracks[k].web.st = "searching"
          /\ tracks' = [tracks EXCEPT ![k].web = [@ EXCEPT !.st = "judging", !.found = found]]
    /\ UNCHANGED <<runs, heap, results_ref, call, ret, pipeline_vars>>

\* the model call of _web_verify_claim returns or raises
WebLLMReturns ==
    /\ call.fn = "dual_verify"
    /\ \E k \in 1..MaxVerifyClaims, llm \in TrackLLMOutcomes :
          /\ tracks[k].web.st = "judging"
          /\ tracks' = [tracks EXCEPT ![k].web =
                           IF llm.kind = "raise" THEN [@ EXCEPT !.st = "raised"]
                           ELSE [@ EXCEPT !.st = "done", !.verdict = VerdictOf(llm)]]
    /\ UNCHANGED <<runs, heap, results_ref, call, ret, pipeline_vars>>

\* the sequential branch: self_verify_claim is called once the web result is in
SelfStartsAfterWebReturned ==
    /\ call.fn = "dual_verify"
    /\ runs[1].pc = "await"
    /\ call.self_verify_enabled
    /\ ~StartsSelfWithWeb(call.self_verify_enabled, call.self_verify_parallel)
    /\ tracks[runs[1].idx].web.st = "done"
    /\ tracks[runs[1].idx].self.st = "idle"
    /\ tracks' = [tracks EXCEPT ![runs[1].idx].self =
                     [@ EXCEPT !.st = "running",
                               !.input = SelfVerifyUserPrompt(runs[1].claims[runs[1].idx].claim)]]
    /\ UNCHANGED <<runs, heap, results_ref, call, ret, pipeline_vars>>

\* the model call of self_verify_claim returns or raises; a failure is the
\* verdict unclear
SelfLLMReturns ==
    /\ call.fn = "dual_verify"
    /\ \E k \in 1..MaxVerifyClaims, llm \in TrackLLMOutcomes :
          /\ tracks[k].self.st = "running"
          /\ tracks' = [tracks EXCEPT ![k].self =
                           [@ EXCEPT !.st = "done",
                                     !.verdict = self_verify_claim(runs[1].claims[k].claim, llm).verdict,
                                     !.derivation = self_verify_claim(runs[1].claims[k].claim, llm).derivation,
                                     !.answer = llm]]
    /\ UNCHANGED <<runs, heap, results_ref, call, ret, pipeline_vars>>

\* the await of _verify_single_claim is over: gather (or the sequence of
\* awaits) has both results, or the web coroutine raised
AwaitOver(k) ==
    \/ tracks[k].web.st = "raised"
    \/ /\ tracks[k].web.st = "done"
       /\ call.self_verify_enabled => tracks[k].self.st = "done"

\* dual_verify appends the result of the claim at idx, or its failure result
ClaimResult ==
    /\ call.fn = "dual_verify"
    /\ runs[1].pc = "await"
    /\ AwaitOver(runs[1].idx)
    /\ LET k == runs[1].idx
           claim_obj == runs[1].claims[k]
           appended ==
               IF SingleClaimRaises(tracks[k].web, tracks[k].self, call.self_verify_enabled)
               THEN AppendFailure(results_v2, claim_obj)
               ELSE Append(results_v2,
                           verify_single_claim(claim_obj, tracks[k].web, tracks[k].self,
                                               call.self_verify_enabled))
       IN  /\ heap' = [heap EXCEPT ![results_ref] = appended]
           /\ runs' = [runs EXCEPT ![1] = AfterAppend(@)]
    /\ UNCHANGED <<results_ref, tracks, call, ret, pipeline_vars>>

VerifyNext ==
    \/ StartRun(1)
    \/ BeginClaim
    \/ WebSearchReturns
    \/ WebLLMReturns
    \/ SelfStartsAfterWebReturned
    \/ SelfLLMReturns
    \/ ClaimResult

VerifySpec == VerifyInit /\ [][VerifyNext]_vars


(***************************************************************************)
(* Properties of dual_verify (VerifySpec).                                 *)
(***************************************************************************)
\* the claim at k has its result in self._results_v2
HasResult(k) == k <= Len(results_v2)

\* the verification of the claim at k raised
Raised(k) ==
    \/ tracks[k].web.st = "raised"
    \/ tracks[k].web.verdict \notin {"verified", "refuted", "unclear"}
    \/ call.self_verify_enabled /\ tracks[k].self.verdict \notin {"verified", "refuted", "unclear"}

\* the verdict the self track of the claim at k handed over, "none" when the
\* track is disabled
SelfVerdictGiven(k) == IF call.self_verify_enabled THEN tracks[k].self.verdict ELSE "none"

\* the table of (web verdict, self verdict, combined verdict, confidence)
VerdictTable ==
    {<<"verified", "verified", "verified", 90>>,
     <<"refuted",  "refuted",  "refuted",  90>>,
     <<"verified", "unclear",  "verified", 60>>,
     <<"refuted",  "unclear",  "refuted",  60>>,
     <<"unclear",  "verified", "verified", 45>>,
     <<"unclear",  "refuted",  "refuted",  45>>,
     <<"verified", "refuted",  "unclear",  25>>,
     <<"refuted",  "verified", "unclear",  25>>,
     <<"unclear",  "unclear",  "unclear",  40>>,
     <<"verified", "none",     "verified", 65>>,
     <<"refuted",  "none",     "refuted",  65>>,
     <<"unclear",  "none",     "unclear",  30>>}

\* C11: the combined verdict and confidence of every verified claim are the
\* row of the fixed table for the verdicts its web and self track gave (self
\* absent when the track is disabled).
CombineVerdictsTable ==
    \A k \in 1..Len(results_v2) :
        ~Raised(k) =>
            <<tracks[k].web.verdict, SelfVerdictGiven(k),
              results_v2[k].combined_verdict, results_v2[k].combined_confidence>>
                \in VerdictTable

\* web says verified, self says refuted: the direct conflict
CombineVerdictsTableWitness ==
    /\ runs[1].pc = "returned"
    /\ Len(results_v2) = 2
    /\ tracks[1].web.verdict = "verified" /\ SelfVerdictGiven(1) = "refuted"
    /\ results_v2[1].combined_verdict = "unclear"
    /\ results_v2[1].combined_confidence = 25
    /\ tracks[2].web.verdict = "unclear" /\ SelfVerdictGiven(2) = "verified"
    /\ tracks[2].web.st = "done"
    /\ results_v2[2].combined_confidence = 45

\* C12: dual_verify returns one result per claim, in input order and with the
\* claim's own id; a claim whose verification raised has unclear, confidence 0
\* and web_verified false, and every other claim has the result of its own
\* tracks.
BatchSurvivesFailures ==
    /\ Len(results_v2) <= Len(runs[1].claims)
    /\ runs[1].pc = "returned" =>
          /\ Len(Received(1)) = Len(runs[1].claims)
          /\ \A k \in 1..Len(Received(1)) :
                /\ Received(1)[k].claim_id = runs[1].claims[k].id
                /\ Received(1)[k].claim = runs[1].claims[k].claim
                /\ Raised(k) =>
                      /\ Received(1)[k].combined_verdict = "unclear"
                      /\ Received(1)[k].combined_confidence = 0
                      /\ ~Received(1)[k].web_verified
                /\ ~Raised(k) =>
                      /\ Received(1)[k].web_verdict = tracks[k].web.verdict
                      /\ Received(1)[k].self_verdict = SelfVerdictGiven(k)
                      /\ Received(1)[k].web_verified = tracks[k].web.found
                      /\ Received(1)[k].combined_confidence > 0

\* the first claim fails in its web track, the second is verified by both
BatchSurvivesFailuresWitness ==
    /\ runs[1].pc = "returned"
    /\ Len(Received(1)) = 2
    /\ tracks[1].web.st = "raised"
    /\ Received(1)[1].combined_confidence = 0
    /\ Received(1)[2].claim_id = "V2"
    /\ Received(1)[2].combined_verdict = "verified"
    /\ Received(1)[2].combined_confidence = 90

\* C13: for every claim whose verification did not raise, web_verified is true
\* and a source is attached exactly when the search returned a result, and the
\* combined verdict and confidence are the table value of the two verdicts.
WebTrackFlags ==
    \A k \in 1..Len(results_v2) :
        ~Raised(k) =>
            /\ results_v2[k].web_verified <=> tracks[k].web.found
            /\ results_v2[k].web_source # "none" <=> tracks[k].web.found
            /\ <<results_v2[k].web_verdict, results_v2[k].self_verdict,
                 results_v2[k].combined_verdict, results_v2[k].combined_confidence>>
                   \in VerdictTable

\* search results present, web verified, self verified
WebTrackFlagsWitness ==
    /\ Len(results_v2) >= 1
    /\ tracks[1].web.found
    /\ tracks[1].web.verdict = "verified"
    /\ call.self_verify_enabled
    /\ tracks[1].self.verdict = "verified"
    /\ results_v2[1].combined_verdict = "verified"
    /\ results_v2[1].combined_confidence = 90
    /\ results_v2[1].web_verified

\* a coroutine that was started and has not finished
Running(track) == track.st \in {"searching", "judging", "running"}

Started(track) == track.st # "idle"

Completed(track) == track.st \in {"done", "raised"}

\* C14: a claim's result is produced only after both of its tracks have
\* completed, and no track of a later claim starts before the result of the
\* claim before it has been produced.
OneClaimAtATime ==
    /\ \A k \in 1..MaxVerifyClaims :
          HasResult(k) => ~Running(tracks[k].web) /\ ~Running(tracks[k].self)
    /\ \A k \in 2..MaxVerifyClaims :
          (Started(tracks[k].web) \/ Started(tracks[k].self)) => HasResult(k - 1)

\* C15 as stated: with self-verify enabled, for every configuration, neither
\* track of a claim completes before the other one has started.
TracksConcurrent ==
    call.self_verify_enabled =>
        \A k \in 1..MaxVerifyClaims :
            /\ Completed(tracks[k].web) => Started(tracks[k].self)
            /\ Completed(tracks[k].self) => Started(tracks[k].web)

\* C15 amended: with self-verify enabled and self_verify_parallel set, neither
\* track of a claim completes before the other one has started; with
\* self_verify_parallel unset the self track starts only after the web track
\* has returned.
TracksConcurrentWhenParallel ==
    /\ (call.self_verify_enabled /\ call.self_verify_parallel) =>
          \A k \in 1..MaxVerifyClaims :
              /\ Completed(tracks[k].web) => Started(tracks[k].self)
              /\ Completed(tracks[k].self) => Started(tracks[k].web)
    /\ (call.self_verify_enabled /\ ~call.self_verify_parallel) =>
          \A k \in 1..MaxVerifyClaims :
              Started(tracks[k].self) => tracks[k].web.st = "done"

\* both coroutines of the second claim are in flight
TracksConcurrentWhenParallelWitness ==
    /\ call.self_verify_enabled
    /\ call.self_verify_parallel
    /\ runs[1].idx = 2
    /\ tracks[2].web.st = "judging"
    /\ tracks[2].self.st = "running"


(***************************************************************************)
(* SharedSpec: two runs of the singleton pipeline (api/routes.py,          *)
(* _build_pipeline) are in their verify step.  Both call dual_verify of    *)
(* the one Verifier; a run is suspended at each await of                   *)
(* _verify_single_claim, where the other run may be scheduled.             *)
(***************************************************************************)
SharedInit ==
    /\ call = [fn |-> "dual_verify_shared"]
    /\ runs \in {[r \in Runs |-> [IdleRun EXCEPT !.claims = ClaimsOf(r, n[r]), !.pc = "called"]] :
                    n \in [Runs -> 0..MaxVerifyClaims]}
    /\ heap = <<(<<>>)>>
    /\ results_ref = 1
    /\ tracks = [k \in 1..MaxVerifyClaims |-> [web |-> IdleTrack, self |-> IdleTrack]]
    /\ ret = NoResult
    /\ PipelineIdle

\* what _verify_single_claim gives for a claim: a result, or an exception
SingleClaimOutcomes(claim_obj) ==
    {[raises |-> TRUE, result |-> FailureResult(claim_obj)],
     [raises |-> FALSE,
      result |-> verify_single_claim(claim_obj,
                                     [st |-> "done", found |-> TRUE, verdict |-> "verified"],
                                     [st |-> "done", found |-> FALSE, verdict |-> "verified"],
                                     TRUE)]}

\* the await of _verify_single_claim of run r is over, and the run goes on to
\* its next await or to its return: self._results_v2.append(...) on the list
\* the attribute is bound to now
ClaimVerified(r) ==
    /\ call.fn = "dual_verify_shared"
    /\ runs[r].pc = "begin"
    /\ \E outcome \in SingleClaimOutcomes(runs[r].claims[runs[r].idx]) :
          heap' = [heap EXCEPT ![results_ref] =
                      IF outcome.raises
                      THEN AppendFailure(@, runs[r].claims[runs[r].idx])
                      ELSE Append(@, outcome.result)]
    /\ runs' = [runs EXCEPT ![r] = AfterAppend(@)]
    /\ UNCHANGED <<results_ref, tracks, call, ret, pipeline_vars>>

SharedNext == \E r \in Runs : StartRun(r) \/ ClaimVerified(r)

SharedSpec == SharedInit /\ [][SharedNext]_vars

\* C16: runs that share one pipeline object do not interfere: the list a run
\* has received from dual_verify holds exactly that run's claims, one result
\* per claim in order, whatever the interleaving.
RunsDoNotInterfere ==
    \A r \in Runs :
        runs[r].pc = "returned" =>
            /\ Len(Received(r)) = Len(runs[r].claims)
            /\ \A k \in 1..Len(Received(r)) :
                  k <= Len(runs[r].claims) =>
                      /\ Received(r)[k].claim_id = runs[r].claims[k].id
                      /\ Received(r)[k].claim = runs[r].claims[k].claim


(***************************************************************************)
(* TrustSpec: one call of trust_and_rank on drawn texts and constraints.   *)
(***************************************************************************)
\* bodies with at most one structural property, and a plain one
DrawnBodies ==
    {Body("x", flags, 0, 0, 0) :
        flags \in {{}, {"starts_with_quote", "ends_with_quote"}, {"starts_with_quote"},
                   {"all_uppercase"}, {"all_lowercase"}, {"has_postscript"},
                   {"has_six_star_separator"}, {"has_comma"}}}
    \cup {Body("x", {}, n, 0, 0) : n \in 1..MaxStructCount}
    \cup {Body("x", {}, 0, n, 0) : n \in 1..MaxStructCount}
    \cup {Body("x", {}, 0, 0, n) : n \in 1..MaxStructCount}
    \cup {Body("x", {"all_uppercase"}, 0, 0, MaxStructCount)}
    \cup {EmptyBody}

\* the draft carries no trailing whitespace; the refined text may, where it
\* has the body of the draft
DrawnTextPairs ==
    {<<Text(d, ""), Text(r, "")>> : d \in DrawnBodies, r \in DrawnBodies}
    \cup {<<Text(d, ""), Text(d, " ")>> : d \in DrawnBodies}

TrustConstraintLists ==
    {<<>>} \cup {<<[id |-> "C1", priority |-> "high", description |-> d]>> :
                    d \in ConstraintDescriptions}

\* the final_output the model typed
TypedText == Text(Body("typed", {}, 0, 0, 0), "")

TrustToolInputs ==
    {[winner |-> w, blended |-> b, draft_score |-> sc[1], refined_score |-> sc[2],
      final_output |-> TypedText] :
        w \in {"draft", "refined", "blended"}, b \in BOOLEAN,
        sc \in {<<80, 70>>, <<70, 80>>, <<70, ConfidenceMax + 1>>}}
    \cup {[final_output |-> TypedText]}

TrustLLMOutcomes == {LLMNone, LLMRaise} \cup {Tool(i) : i \in TrustToolInputs}

TrustInit ==
    /\ call \in {[fn |-> "trust_and_rank", original_draft |-> pair[1],
                  refined_output |-> pair[2], constraints |-> cs, blend_enabled |-> b,
                  llm |-> LLMNone, llm_calls |-> 0] :
                    pair \in DrawnTextPairs, cs \in TrustConstraintLists, b \in BOOLEAN}
    /\ ret = NoResult
    /\ PipelineIdle
    /\ VerifierIdle

\* lines 186-196: identical texts, no comparison
TrustIdenticalReturn ==
    /\ call.fn = "trust_and_rank"
    /\ ret = NoResult
    /\ Identical(call.original_draft, call.refined_output)
    /\ ret' = TrustResult("refined", 75, 75, call.refined_output, FALSE)
    /\ UNCHANGED <<call, pipeline_vars, verifier_vars>>

\* lines 198-203, outside the try: KeyError leaves trust_and_rank
TrustAnalysisRaises ==
    /\ call.fn = "trust_and_rank"
    /\ ret = NoResult
    /\ ~Identical(call.original_draft, call.refined_output)
    /\ FormatRaises(analyze(call.original_draft)) \/ FormatRaises(analyze(call.refined_output))
    /\ ret' = [kind |-> "raised"]
    /\ UNCHANGED <<call, pipeline_vars, verifier_vars>>

\* lines 214-220: the model is asked
TrustLLMCall ==
    /\ call.fn = "trust_and_rank"
    /\ ret = NoResult
    /\ call.llm_calls = 0
    /\ ~Identical(call.original_draft, call.refined_output)
    /\ ~FormatRaises(analyze(call.original_draft))
    /\ ~FormatRaises(analyze(call.refined_output))
    /\ \E llm \in TrustLLMOutcomes :
          call' = [call EXCEPT !.llm = llm, !.llm_calls = @ + 1]
    /\ UNCHANGED <<ret, pipeline_vars, verifier_vars>>

\* lines 222-296
TrustReturn ==
    /\ call.fn = "trust_and_rank"
    /\ ret = NoResult
    /\ call.llm_calls = 1
    /\ ret' = trust_and_rank(call.original_draft, call.refined_output, call.constraints,
                             call.llm, call.blend_enabled)
    /\ UNCHANGED <<call, pipeline_vars, verifier_vars>>

TrustNext ==
    \/ TrustIdenticalReturn
    \/ TrustAnalysisRaises
    \/ TrustLLMCall
    \/ TrustReturn

TrustSpec == TrustInit /\ [][TrustNext]_vars

TrustReturned == call.fn = "trust_and_rank" /\ ret # NoResult /\ ret.kind = "result"

\* C20: when draft and refined text are identical after trimming whitespace,
\* no comparison call is made to the model, and the result names refined as
\* the winner, is not blended, gives both versions the same score and
\* carries the refined text as final output.
IdenticalSkipsComparison ==
    (/\ call.fn = "trust_and_rank"
     /\ Strip(call.original_draft) = Strip(call.refined_output))
    => /\ call.llm_calls = 0
       /\ ret # NoResult =>
             /\ ret.kind = "result"
             /\ ret.winner = "refined"
             /\ ~ret.blended
             /\ ret.draft_score = ret.refined_score
             /\ ret.final_output = call.refined_output

\* texts that differ only in surrounding whitespace, after the return
IdenticalSkipsComparisonWitness ==
    /\ TrustReturned
    /\ call.original_draft # call.refined_output
    /\ Strip(call.original_draft) = Strip(call.refined_output)
    /\ call.llm_calls = 0
    /\ ret.final_output = call.refined_output

\* the model answered with a tool input that was turned into the result
TrustFromResponse == TrustReturned /\ call.llm_calls = 1 /\ call.llm.kind = "tool"

ChoosesBlended(result) ==
    Get(result, "winner", "refined") = "blended" \/ Get(result, "blended", FALSE)

\* the higher-scored of draft and refined, refined on a tie
HigherScored(result) ==
    IF Get(result, "refined_score", 60) >= Get(result, "draft_score", 50)
    THEN "refined" ELSE "draft"

\* C19: when blending is disabled, every model response that chooses blended
\* (winner 'blended' or blended flag true) is turned into the higher-scored
\* of draft and refined: the result never has winner 'blended' nor
\* blended = true, and final_output is the original text of the chosen
\* version.  The structural override of C17 may still turn a refined choice
\* into the draft.
BlendDisabledFallsBack ==
    (/\ TrustFromResponse
     /\ ~call.blend_enabled
     /\ ChoosesBlended(call.llm.input))
    => /\ ret.winner \in {"draft", "refined"}
       /\ ~ret.blended
       /\ ret.winner = "draft" => ret.final_output = call.original_draft
       /\ ret.winner = "refined" => ret.final_output = call.refined_output
       /\ \/ ret.winner = HigherScored(call.llm.input)
          \/ /\ ret.winner = "draft"
             /\ check_structural_override(analyze(call.original_draft),
                                          analyze(call.refined_output),
                                          call.constraints) # "none"
          \/ ret = TrustFallback(call.refined_output)

\* the response is well formed and picks the refined version, not blended
PicksRefined ==
    /\ TrustFromResponse
    /\ Get(call.llm.input, "draft_score", 50) \in 0..ConfidenceMax
    /\ Get(call.llm.input, "refined_score", 60) \in 0..ConfidenceMax
    /\ Get(call.llm.input, "winner", "refined") = "refined"
    /\ ~Get(call.llm.input, "blended", FALSE)

QuoteWrapLost ==
    /\ analyze(call.original_draft).starts_with_quote
    /\ analyze(call.original_draft).ends_with_quote
    /\ ~(/\ analyze(call.refined_output).starts_with_quote
         /\ analyze(call.refined_output).ends_with_quote)

PlaceholdersDecreased ==
    analyze(call.refined_output).placeholder_count
        < analyze(call.original_draft).placeholder_count

UppercaseLost ==
    analyze(call.original_draft).all_uppercase /\ ~analyze(call.refined_output).all_uppercase

LowercaseLost ==
    analyze(call.original_draft).all_lowercase /\ ~analyze(call.refined_output).all_lowercase

PostscriptLost ==
    analyze(call.original_draft).has_postscript /\ ~analyze(call.refined_output).has_postscript

SeparatorLost ==
    /\ analyze(call.original_draft).has_six_star_separator
    /\ ~analyze(call.refined_output).has_six_star_separator

BulletsDecreased ==
    analyze(call.refined_output).bullet_count < analyze(call.original_draft).bullet_count

\* the regressions other than those of case, each with a constraint that
\* mentions it
MentionedRegression ==
    \/ QuoteWrapLost /\ Mentions(call.constraints, {"quotation", "quote", "wrap"})
    \/ PlaceholdersDecreased
          /\ Mentions(call.constraints, {"placeholder", "bracket", "[", "square"})
    \/ PostscriptLost /\ Mentions(call.constraints, {"postscript", "p.s."})
    \/ SeparatorLost /\ Mentions(call.constraints, {"******", "separator", "two responses"})
    \/ BulletsDecreased /\ Mentions(call.constraints, {"bullet", "list item", "list point"})

UppercaseKeywords == {"capital", "uppercase", "upper case"}

LowercaseKeywords == {"lowercase", "lower case", "lower"}

OverriddenToDraft == ret.winner = "draft" /\ ret.final_output = call.original_draft

TrustCallFailed ==
    /\ call.fn = "trust_and_rank"
    /\ call.llm_calls = 1
    /\ call.llm.kind \in {"none", "raise"}

\* C21: when the trust call fails (returns null or raises) for non-identical
\* texts, the result is winner refined, not blended, with the refined
\* candidate unchanged as final_output and the fixed scores draft 50 and
\* refined 60; the run still emits trust_decision and pipeline_complete.
TrustFailureDefault ==
    TrustCallFailed
    => /\ call.original_draft # call.refined_output
       /\ call.refined_output = current_draft
       /\ trust_result.winner = "refined"
       /\ ~trust_result.blended
       /\ trust_result.final_output = current_draft
       /\ trust_result.draft_score = 50
       /\ trust_result.refined_score = 60
       /\ Last(events) \in {Ev("trust_decision", iteration), Ev("pipeline_complete", iteration)}
       /\ pc \in {"complete", "done"}
       /\ pc = "done" => /\ Last(events) = Ev("pipeline_complete", iteration)
                         /\ PipelineCompletePayload.final_output = current_draft

\* a run that ended after the trust call raised
TrustFailureDefaultWitness ==
    /\ TrustCallFailed
    /\ call.llm = LLMRaise
    /\ pc = "done"
    /\ trust_result = TrustFallback(current_draft)
    /\ Last(events) = Ev("pipeline_complete", iteration)


(***************************************************************************)
(* DecompSpec: one call of Decomposer.decompose on a drawn response.       *)
(***************************************************************************)
DecomposeEntries ==
    {[id |-> i, type |-> "content", description |-> "d", priority |-> p, verifiable |-> v] :
        i \in {"C1", "C2"}, p \in {"high", "low"}, v \in BOOLEAN}
    \cup {[id |-> "C1", type |-> "format", description |-> "d", priority |-> "medium"],
          [type |-> "content", description |-> "d", priority |-> "high", verifiable |-> TRUE],
          [id |-> "C1", type |-> "content", priority |-> "high", verifiable |-> TRUE],
          [id |-> "C1", type |-> "style", description |-> "d", priority |-> "high",
           verifiable |-> TRUE],
          [id |-> "C1", type |-> "content", description |-> "d", priority |-> "urgent",
           verifiable |-> TRUE],
          NotAnObject}

DecomposeToolInputs ==
    {[main_task |-> "t"]}
    \cup {[main_task |-> "t", constraints |-> es] : es \in SeqsUpTo(DecomposeEntries, MaxEntries)}
    \cup {[main_task |-> "t", constraints |-> es, difficulty_estimate |-> d] :
            es \in SeqsUpTo(DecomposeEntries, MaxEntries), d \in {"medium", JsonNull}}

DecomposeLLMOutcomes == {LLMNone, LLMRaise} \cup {Tool(i) : i \in DecomposeToolInputs}

\* building the user message from DECOMPOSE_MODE_PROMPTS (decomposer.py:95-103)
DecomposePromptRaises(mode, scraped_content) == FALSE

DecompInit ==
    /\ call \in {[fn |-> "decompose", mode |-> m, scraped_content |-> sc, llm |-> llm] :
                    m \in {"question", "url"}, sc \in BOOLEAN, llm \in DecomposeLLMOutcomes}
    /\ ret = NoResult
    /\ PipelineIdle
    /\ VerifierIdle

DecompReturn ==
    /\ call.fn = "decompose"
    /\ ret = NoResult
    /\ ~DecomposePromptRaises(call.mode, call.scraped_content)
    /\ ret' = Decomposer_decompose(call.llm)
    /\ UNCHANGED <<call, pipeline_vars, verifier_vars>>

DecompSpec == DecompInit /\ [][DecompReturn]_vars

DecompReturned == call.fn = "decompose" /\ ret # NoResult

ResponseEntries == IF call.llm.kind = "tool" THEN Get(call.llm.input, "constraints", <<>>) ELSE <<>>

\* an entry the claims call valid: an object with id, type, description and
\* priority, type and priority within their enumerations
ValidEntry(c) ==
    /\ IsObject(c)
    /\ {"id", "type", "description", "priority"} \subseteq DOMAIN c
    /\ c.type \in ConstraintType
    /\ c.priority \in ConstraintPriority

NoValidEntry == \A i \in 1..Len(ResponseEntries) : ~ValidEntry(ResponseEntries[i])

\* the response is malformed somewhere: no tool input, no constraints, an
\* invalid entry, or a null difficulty
MalformedResponse ==
    \/ call.llm.kind # "tool"
    \/ "constraints" \notin DOMAIN call.llm.input
    \/ \E i \in 1..Len(ResponseEntries) : ~ValidEntry(ResponseEntries[i])
    \/ Get(call.llm.input, "difficulty_estimate", "medium") = JsonNull

HasHighVerifiable(cs) ==
    \E i \in 1..Len(cs) : cs[i].priority = "high" /\ cs[i].verifiable

IsFixedFallback(cs) ==
    /\ Len(cs) = 2
    /\ cs[1] = [id |-> "C1", type |-> "accuracy", priority |-> "high", verifiable |-> TRUE]
    /\ cs[2] = [id |-> "C2", type |-> "content", priority |-> "high", verifiable |-> TRUE]

\* C22 as stated: decompose never raises, returns the fixed two-constraint
\* fallback for an empty, failed or all-invalid model result, and for every
\* malformed decomposition input returns a list with at least one
\* high-priority verifiable constraint.
DecomposeMalformedHasHigh ==
    DecompReturned
    => /\ ret.kind = "result"
       /\ NoValidEntry => IsFixedFallback(ret.constraints)
       /\ MalformedResponse => HasHighVerifiable(ret.constraints)

\* C22, amended: decompose never raises and always returns a non-empty
\* list; when the model result is empty, failed or has no valid entry the
\* list is the fixed two-constraint fallback, which has a high-priority
\* verifiable constraint.
DecomposeFallback ==
    DecompReturned
    => /\ ret.kind = "result"
       /\ Len(ret.constraints) >= 1
       /\ NoValidEntry => /\ IsFixedFallback(ret.constraints)
                          /\ HasHighVerifiable(ret.constraints)

\* a response whose entries are all invalid, answered by the fallback
DecomposeFallbackWitness ==
    /\ DecompReturned
    /\ call.llm.kind = "tool"
    /\ Len(ResponseEntries) = MaxEntries
    /\ NoValidEntry
    /\ \A i \in 1..Len(ResponseEntries) : IsObject(ResponseEntries[i])
    /\ IsFixedFallback(ret.constraints)

\* C23: in a batch of decomposition entries every invalid entry (missing id
\* or description, type or priority outside the enumeration, or not an
\* object) is dropped and every valid sibling is kept in order.
InvalidEntriesDropped ==
    (/\ DecompReturned
     /\ call.llm.kind = "tool"
     /\ Get(call.llm.input, "difficulty_estimate", "medium") # JsonNull
     /\ ~NoValidEntry)
    => ConstraintIds(ret.constraints)
          = ConstraintIds(SelectSeq(ResponseEntries, ValidEntry))

DistinctIds(cs) == \A i, j \in 1..Len(cs) : cs[i].id = cs[j].id => i = j

\* C24: in every run the constraint list produced by Decompose has pairwise
\* distinct ids, and the same list (same ids, same priorities) is the one
\* every later phase of every iteration is given: no phase adds, removes or
\* changes a constraint.
ConstraintsDistinctAndFixed ==
    /\ [](DistinctIds(constraints))
    /\ [][pc # "decompose" => constraints' = constraints]_vars

\* the model call of the critique of this iteration failed
CritiqueCallFailed == call.fn = "critique" /\ call.failed /\ call.iteration = iteration

\* the last n component calls
LastCalls(n) == SubSeq(calls, Len(calls) - n + 1, Len(calls))

\* C25: when the critique call fails (returns null or raises), the critique
\* has one evaluation per constraint with verdict partially_satisfied and
\* confidence 30, no claims to verify and no strengths, and the iteration
\* goes on to Verify (with zero claims) and Refine instead of stopping.
CritiqueFailureDefault ==
    CritiqueCallFailed
    => /\ Len(critique_result.constraint_evaluations) = Len(constraints)
       /\ \A i \in 1..Len(constraints) :
             /\ critique_result.constraint_evaluations[i].constraint_id = constraints[i].id
             /\ critique_result.constraint_evaluations[i].verdict = "partially_satisfied"
             /\ critique_result.constraint_evaluations[i].confidence = 30
       /\ critique_result.claims_to_verify = <<>>
       /\ critique_result.strengths_to_preserve = <<>>
       /\ pc \in {"verify", "refine"}
       /\ pc = "verify" => Last(calls) = <<"critique", iteration>>
       /\ pc = "refine" => /\ LastCalls(2) = <<<<"critique", iteration>>, <<"verify", iteration>>>>
                           /\ all_verifications = <<>>
                           /\ Last(events) = Ev("step_complete:verify", iteration)

\* the critique of the second iteration failed and the iteration went on
\* through Verify to Refine
CritiqueFailureDefaultWitness ==
    /\ CritiqueCallFailed
    /\ iteration = 2
    /\ pc = "refine"
    /\ Len(constraints) = 2
    /\ all_verifications = <<>>

\* the model call of the refinement of this iteration failed
RefineCallFailed == call.fn = "selective_refine" /\ call.failed

\* C26: when the refine call fails (returns null or raises), selective_refine
\* returns the input candidate unchanged, an empty change list and the
\* critique's overall confidence, and the candidate handed to Converge and
\* to the next iteration is the one that entered Refine.
RefineFailureDefault ==
    /\ [](RefineCallFailed
          => /\ pc = "converge"
             /\ call.draft = current_draft
             /\ refine_result.refined_response = current_draft
             /\ refine_result.changes_made = <<>>
             /\ refine_result.confidence_after = critique_result.overall_confidence)
    /\ [][RefineCallFailed => current_draft' = current_draft]_vars

\* the refinement of the second iteration failed on a candidate that the
\* first iteration had changed
RefineFailureDefaultWitness ==
    /\ RefineCallFailed
    /\ call.iteration = 2
    /\ current_draft # draft_content
    /\ refine_result.refined_response = current_draft

(***************************************************************************)
(* Structural enforcement (core/structural_enforcer.py).  A text is kept   *)
(* as the blocks its blank lines separate; a block is a sequence of pieces *)
(* joined by one whitespace character, a piece being a run of words that   *)
(* may end with a sentence stop (. ! ?) or a separator line such as ***.   *)
(* `padded' says that the text has leading, trailing or extra blank-line   *)
(* whitespace, which splitting drops and joining does not restore.         *)
(***************************************************************************)
MaxParagraphs == 2
MaxPieces == 2
MaxTarget == 3

\* _extract_paragraph_requirement and _extract_bullet_requirement return an
\* n > 0 or None
NoRequirement == 0

Piece(stop) == [len |-> 1, stop |-> stop, sep |-> FALSE]

SeparatorPiece == [len |-> 3, stop |-> FALSE, sep |-> TRUE]

RECURSIVE SumLen(_)
SumLen(p) == IF p = <<>> THEN 0 ELSE Head(p).len + SumLen(Tail(p))

\* len() of a block: its pieces and the single characters between them
StrLen(p) == IF p = <<>> THEN 0 ELSE SumLen(p) + Len(p) - 1

\* [p.strip() for p in re.split(r'\n\s*\n', text.strip()) if p.strip()]
split_paragraphs(text) == text.paras

\* "\n\n".join(paragraphs)
JoinParagraphs(paragraphs) == [paras |-> paragraphs, padded |-> FALSE]

is_separator_block(block) == Len(block) = 1 /\ block[1].sep

\* first pass of the merge: a separator-only block is appended to the block
\* before it with a single newline
RECURSIVE CollapseSeparators(_, _)
CollapseSeparators(collapsed, rest) ==
    IF rest = <<>> THEN collapsed
    ELSE IF is_separator_block(Head(rest)) /\ collapsed # <<>>
         THEN CollapseSeparators([collapsed EXCEPT ![Len(collapsed)] = @ \o Head(rest)], Tail(rest))
         ELSE CollapseSeparators(Append(collapsed, Head(rest)), Tail(rest))

\* second pass: the first adjacent pair of least combined length is joined
\* with a space until no more than `expected' blocks are left
RECURSIVE MergeShortest(_, _)
MergeShortest(paragraphs, expected) ==
    IF Len(paragraphs) <= expected THEN paragraphs
    ELSE LET pairs == 1..(Len(paragraphs) - 1)
             combined(i) == StrLen(paragraphs[i]) + StrLen(paragraphs[i + 1])
             min_idx == CHOOSE i \in pairs : \A j \in pairs :
                            \/ combined(i) < combined(j)
                            \/ combined(i) = combined(j) /\ i <= j
         IN  MergeShortest([k \in pairs |->
                                IF k < min_idx THEN paragraphs[k]
                                ELSE IF k = min_idx THEN paragraphs[k] \o paragraphs[k + 1]
                                ELSE paragraphs[k + 1]], expected)

\* re.split(r'(?<=[.!?])\s+', s): the places of s where a sentence ends and
\* another piece follows
SentenceBoundaries(p) == {i \in 1..(Len(p) - 1) : p[i].stop}

\* the piece after which sentences[:mid] ends, mid = len(sentences) // 2
MidBoundary(p) ==
    LET mid == (Cardinality(SentenceBoundaries(p)) + 1) \div 2
    IN  CHOOSE c \in SentenceBoundaries(p) :
            Cardinality({b \in SentenceBoundaries(p) : b <= c}) = mid

\* the first of the longest elements of a non-empty sequence of blocks
Longest(blocks) ==
    CHOOSE i \in 1..Len(blocks) : \A j \in 1..Len(blocks) :
        \/ StrLen(blocks[i]) > StrLen(blocks[j])
        \/ StrLen(blocks[i]) = StrLen(blocks[j]) /\ i <= j

\* the longest block is split at the middle sentence boundary until there
\* are `expected' blocks or the longest block has no boundary
RECURSIVE SplitLongest(_, _)
SplitLongest(paragraphs, expected) ==
    IF Len(paragraphs) >= expected THEN paragraphs
    ELSE LET max_idx == Longest(paragraphs)
             p == paragraphs[max_idx]
         IN  IF SentenceBoundaries(p) = {} THEN paragraphs
             ELSE SplitLongest([k \in 1..(Len(paragraphs) + 1) |->
                                   IF k < max_idx THEN paragraphs[k]
                                   ELSE IF k = max_idx THEN SubSeq(p, 1, MidBoundary(p))
                                   ELSE IF k = max_idx + 1 THEN SubSeq(p, MidBoundary(p) + 1, Len(p))
                                   ELSE paragraphs[k - 1]], expected)

EnforceReturn(text) == [kind |-> "return", text |-> text]

\* paragraphs[max_idx] with max_idx = 0 on an empty list
EnforceIndexError == [kind |-> "raise", error |-> "IndexError"]

\* the blocks after the merge or the split, before the result is joined
EnforcedParagraphs(paragraphs, expected) ==
    IF Len(paragraphs) > expected
    THEN MergeShortest(CollapseSeparators(<<>>, paragraphs), expected)
    ELSE SplitLongest(paragraphs, expected)

enforce_paragraph_count(text, expected) ==
    IF expected = NoRequirement \/ Len(split_paragraphs(text)) = expected
    THEN EnforceReturn(text)
    ELSE IF split_paragraphs(text) = <<>>
    THEN EnforceIndexError
    ELSE LET result == JoinParagraphs(EnforcedParagraphs(split_paragraphs(text), expected))
         IN  IF Len(split_paragraphs(result)) # expected
             THEN EnforceReturn(text)
             ELSE EnforceReturn(result)

\* a line of text.split('\n'): `bullet' says that it starts with a bullet
\* prefix (^\s*(?:[-*•]|\d+[.)]) ), `content' is what follows the prefix
Line(bullet, content) == [bullet |-> bullet, content |-> content]

\* len(line), the prefix of a bullet line being "- "
LineLen(line) == (IF line.bullet THEN 2 ELSE 0) + StrLen(line.content)

\* the indices of the bullet lines, ascending
find_bullet_lines(lines) == {i \in 1..Len(lines) : lines[i].bullet}

\* lines.pop(bullet_indices.pop()) until `expected' bullet lines are left
RECURSIVE RemoveExcessBullets(_, _)
RemoveExcessBullets(lines, expected) ==
    IF Cardinality(find_bullet_lines(lines)) <= expected THEN lines
    ELSE LET remove_idx == CHOOSE i \in find_bullet_lines(lines) :
                               \A j \in find_bullet_lines(lines) : j <= i
         IN  RemoveExcessBullets([k \in 1..(Len(lines) - 1) |->
                                     IF k < remove_idx THEN lines[k] ELSE lines[k + 1]], expected)

\* the first of the longest bullet lines is split at its middle sentence
\* boundary until there are `expected' bullet lines, there is no bullet line
\* or the longest one has no boundary
RECURSIVE SplitLongestBullet(_, _)
SplitLongestBullet(lines, expected) ==
    LET bullet_indices == find_bullet_lines(lines)
    IN  IF Cardinality(bullet_indices) >= expected \/ bullet_indices = {} THEN lines
        ELSE LET line_idx == CHOOSE i \in bullet_indices : \A j \in bullet_indices :
                                 \/ LineLen(lines[i]) > LineLen(lines[j])
                                 \/ LineLen(lines[i]) = LineLen(lines[j]) /\ i <= j
                 content == lines[line_idx].content
             IN  IF SentenceBoundaries(content) = {} THEN lines
                 ELSE SplitLongestBullet(
                          [k \in 1..(Len(lines) + 1) |->
                              IF k < line_idx THEN lines[k]
                              ELSE IF k = line_idx
                                   THEN Line(TRUE, SubSeq(content, 1, MidBoundary(content)))
                              ELSE IF k = line_idx + 1
                                   THEN Line(TRUE, SubSeq(content, MidBoundary(content) + 1, Len(content)))
                              ELSE lines[k - 1]], expected)

\* text and result are the lines that '\n' separates: text.split('\n') and
\* '\n'.join(lines) are inverse to each other
enforce_bullet_count(lines, expected) ==
    IF expected = NoRequirement \/ Cardinality(find_bullet_lines(lines)) = expected
    THEN EnforceReturn(lines)
    ELSE IF Cardinality(find_bullet_lines(lines)) > expected
    THEN EnforceReturn(RemoveExcessBullets(lines, expected))
    ELSE EnforceReturn(SplitLongestBullet(lines, expected))

\* a piece of a text given to enforce: `bullet' says that a line starting
\* with it starts with a bullet prefix, which its length includes; `word'
\* that its first word is the required first word
EnforcePiece(stop, bullet, word) ==
    [len |-> IF bullet THEN 3 ELSE 1, stop |-> stop, sep |-> FALSE,
     bullet |-> bullet, word |-> word]

\* the paragraph that a required start phrase makes: required + "\n\n" + text
StartPhraseBlock == <<EnforcePiece(FALSE, FALSE, FALSE)>>

\* _enforce_start_phrase, for a text that does not start with the phrase
enforce_start_phrase(text, required) ==
    IF ~required THEN text
    ELSE JoinParagraphs(<<StartPhraseBlock>> \o split_paragraphs(text))

\* _enforce_first_word for one requirement (para_num, required_word):
\* paragraphs[idx] = required_word + " " + paragraphs[idx]
enforce_first_word(text, para_num) ==
    LET paragraphs == split_paragraphs(text)
    IN  IF para_num = NoRequirement \/ para_num > Len(paragraphs) THEN text
        ELSE IF paragraphs[para_num][1].word THEN text
        ELSE JoinParagraphs([paragraphs EXCEPT ![para_num] =
                                <<EnforcePiece(FALSE, FALSE, TRUE)>> \o @])

\* an empty line of text.split('\n')
BlankLine == Line(FALSE, <<>>)

\* the line of a paragraph written on one line
LineOf(block) ==
    IF block[1].bullet
    THEN Line(TRUE, <<[block[1] EXCEPT !.len = @ - 2]>> \o Tail(block))
    ELSE Line(FALSE, block)

\* text.split('\n') of paragraphs of one line each, joined by "\n\n"
RECURSIVE SplitLines(_)
SplitLines(paragraphs) ==
    IF paragraphs = <<>> THEN <<>>
    ELSE IF Len(paragraphs) = 1 THEN <<LineOf(paragraphs[1])>>
    ELSE <<LineOf(paragraphs[1]), BlankLine>> \o SplitLines(Tail(paragraphs))

\* len(_split_paragraphs('\n'.join(lines))): the runs of lines that are not
\* empty
ParagraphCount(lines) ==
    Cardinality({i \in 1..Len(lines) :
                    lines[i] # BlankLine /\ (i = 1 \/ lines[i - 1] = BlankLine)})

\* enforce, lines 48-65: the four stages in their order; `paragraph_stage'
\* keeps what stage 2 returned
enforce(text, req) ==
    LET started == enforce_start_phrase(text, req.start)
        counted == enforce_paragraph_count(started, req.paragraphs)
    IN  IF counted.kind = "raise" THEN counted
        ELSE LET worded == enforce_first_word(counted.text, req.first_word)
                 bulleted == enforce_bullet_count(SplitLines(split_paragraphs(worded)),
                                                  req.bullets)
             IN  [kind |-> "return", text |-> bulleted.text,
                  paragraph_stage |-> counted.text]

(***************************************************************************)
(* EnforceSpec: one call of enforce, or of one of the two count            *)
(* enforcements alone, on a text and parsed requirements.                  *)
(***************************************************************************)
Contents == UNION {[1..n -> {Piece(TRUE), Piece(FALSE)}] : n \in 1..MaxPieces}

EnforceBlocks == UNION {[1..n -> Contents \cup {<<SeparatorPiece>>}] : n \in 0..MaxParagraphs}

EnforceLines ==
    UNION {[1..n -> {Line(TRUE, c) : c \in Contents} \cup {Line(FALSE, <<Piece(FALSE)>>)}] :
              n \in 0..MaxParagraphs}

\* the paragraphs drawn for enforce: a bullet item, a line of prose, a bullet
\* item of two sentences, a line that starts with the required word
EnforceParagraphs ==
    {<<EnforcePiece(FALSE, TRUE, FALSE)>>,
     <<EnforcePiece(FALSE, FALSE, FALSE)>>,
     <<EnforcePiece(TRUE, TRUE, FALSE), EnforcePiece(FALSE, FALSE, FALSE)>>,
     <<EnforcePiece(FALSE, FALSE, TRUE)>>}

EnforceTexts == UNION {[1..n -> EnforceParagraphs] : n \in 0..MaxParagraphs}

EnforceRequirements ==
    [start : BOOLEAN,
     paragraphs : {NoRequirement} \cup 1..MaxTarget,
     first_word : {NoRequirement} \cup 1..MaxParagraphs,
     bullets : {NoRequirement} \cup 1..MaxTarget]

EnforceInit ==
    /\ call \in {[fn |-> "_enforce_paragraph_count", text |-> [paras |-> ps, padded |-> b], expected |-> n] :
                    ps \in EnforceBlocks, b \in BOOLEAN, n \in {NoRequirement} \cup 1..MaxTarget}
                \cup {[fn |-> "enforce", text |-> JoinParagraphs(ps), requirements |-> req] :
                         ps \in EnforceTexts, req \in EnforceRequirements}
                \cup {[fn |-> "_enforce_bullet_count", text |-> ls, expected |-> n] :
                         ls \in EnforceLines, n \in {NoRequirement} \cup 1..MaxTarget}
    /\ ret = NoResult
    /\ PipelineIdle
    /\ VerifierIdle

EnforceParagraphCount ==
    /\ call.fn = "_enforce_paragraph_count"
    /\ ret = NoResult
    /\ ret' = enforce_paragraph_count(call.text, call.expected)
    /\ UNCHANGED <<call, pipeline_vars, verifier_vars>>

EnforceBulletCount ==
    /\ call.fn = "_enforce_bullet_count"
    /\ ret = NoResult
    /\ ret' = enforce_bullet_count(call.text, call.expected)
    /\ UNCHANGED <<call, pipeline_vars, verifier_vars>>

Enforce ==
    /\ call.fn = "enforce"
    /\ ret = NoResult
    /\ ret' = enforce(call.text, call.requirements)
    /\ UNCHANGED <<call, pipeline_vars, verifier_vars>>

EnforceNext == EnforceParagraphCount \/ EnforceBulletCount \/ Enforce

EnforceSpec == EnforceInit /\ [][EnforceNext]_vars

ParagraphCountCalled == call.fn = "_enforce_paragraph_count" /\ ret # NoResult

\* C27: for every text and every parsed paragraph target N, the paragraph
\* count enforcement returns a text that has exactly N paragraphs by its own
\* split, or the text it was given; it never returns a changed text with
\* another count.
ParagraphCountExactOrOriginal ==
    ParagraphCountCalled /\ call.expected # NoRequirement
    => /\ ret.kind = "return"
       /\ \/ ret.text = call.text
          \/ Len(split_paragraphs(ret.text)) = call.expected

BulletCountCalled == call.fn = "_enforce_bullet_count" /\ ret # NoResult

\* C28: for every text and every parsed bullet target N, the bullet count
\* enforcement returns a text with exactly N bullet items or the text it was
\* given; where the target cannot be reached the text is returned as it was.
BulletCountExactOrOriginal ==
    BulletCountCalled /\ call.expected # NoRequirement
    => /\ ret.kind = "return"
       /\ \/ ret.text = call.text
          \/ Cardinality(find_bullet_lines(ret.text)) = call.expected

(***************************************************************************)
(* LLMSpec: one call of a method of LLMService (services/llm.py).  `api'   *)
(* holds what the first and the second request to the client would do, a   *)
(* request being messages.create or, for stream, messages.stream.          *)
(***************************************************************************)
TextBlock(text) == [type |-> "text", text |-> text]

ToolUseBlock == [type |-> "tool_use", input |-> [k |-> "v"]]

APIMessage(content) == [kind |-> "message", content |-> content]

APITimeoutError == [kind |-> "raise", error |-> "APITimeoutError"]

APIError == [kind |-> "raise", error |-> "APIError"]

\* what a request can do: answer with content blocks, time out, or fail
\* otherwise; tool_use blocks come only when tools were passed
APIOutcomes(method) ==
    {APITimeoutError, APIError} \cup {APIMessage(<<TextBlock(t)>>) : t \in {"a", "b"}}
    \cup (IF method = "generate_with_tools"
          THEN {APIMessage(<<ToolUseBlock>>)}
               \cup {APIMessage(<<TextBlock(t), ToolUseBlock>>) : t \in {"a", "b"}}
          ELSE {})

\* what the method returns for an answer of the client
RECURSIVE FirstToolInput(_)
FirstToolInput(content) ==
    IF content = <<>> THEN LLMNone
    ELSE IF Head(content).type = "tool_use" THEN Tool(Head(content).input)
    ELSE FirstToolInput(Tail(content))

LLMReturn(method, response) ==
    [kind |-> "return",
     value |-> CASE method = "generate" -> response.content[1].text
                 [] method = "generate_with_tools" -> FirstToolInput(response.content)
                 [] method = "stream" -> <<response.content[1].text>>]

\* the methods whose body catches anthropic.APITimeoutError and requests again
RetriesOnTimeout(method) == method \in {"generate", "generate_with_tools"}

LLMInit ==
    /\ call \in {[fn |-> "LLMService", method |-> m, api |-> <<a, b>>, requests |-> 0] :
                    m \in {"generate", "generate_with_tools", "stream"},
                    a \in APIOutcomes("generate_with_tools"), b \in APIOutcomes("generate_with_tools")}
    /\ call.api[1] \in APIOutcomes(call.method)
    /\ call.api[2] \in APIOutcomes(call.method)
    /\ ret = NoResult
    /\ PipelineIdle
    /\ VerifierIdle

\* the request in the try block, or the only request of stream
LLMRequest ==
    /\ call.fn = "LLMService"
    /\ call.requests = 0
    /\ ret = NoResult
    /\ call' = [call EXCEPT !.requests = 1]
    /\ ret' = IF call.api[1].kind = "message" THEN LLMReturn(call.method, call.api[1])
              ELSE IF call.api[1] = APITimeoutError /\ RetriesOnTimeout(call.method) THEN NoResult
              ELSE call.api[1]
    /\ UNCHANGED <<pipeline_vars, verifier_vars>>

\* the request in the except block: whatever it raises leaves the method
LLMRetry ==
    /\ call.fn = "LLMService"
    /\ call.requests = 1
    /\ ret = NoResult
    /\ call' = [call EXCEPT !.requests = 2]
    /\ ret' = IF call.api[2].kind = "message" THEN LLMReturn(call.method, call.api[2])
              ELSE call.api[2]
    /\ UNCHANGED <<pipeline_vars, verifier_vars>>

LLMNext == LLMRequest \/ LLMRetry

LLMSpec == LLMInit /\ [][LLMNext]_vars

LLMCallOver == call.fn = "LLMService" /\ ret # NoResult

\* C29: every call of generate, generate_with_tools or stream whose request
\* times out is retried exactly once and the caller sees only the outcome of
\* the retry; a timeout of the retry is not retried again and surfaces as the
\* failure of the call.
TimeoutRetriedOnce ==
    LLMCallOver
    => /\ call.requests <= 2
       /\ call.api[1] # APITimeoutError => call.requests = 1
       /\ call.api[1] = APITimeoutError
          => /\ call.requests = 2
             /\ call.api[2].kind = "message" => ret = LLMReturn(call.method, call.api[2])
             /\ call.api[2].kind = "raise" => ret = call.api[2]

(***************************************************************************)
(* The verification results of a run (SharedSpec).  execute_pipeline binds *)
(* all_verifications to the list dual_verify returned (pipeline.py:258-275) *)
(* and reads that list again for Trust and for the totals of               *)
(* pipeline_complete (pipeline.py:365-370, 399-427).                       *)
(***************************************************************************)
\* claims_checked of pipeline_complete for run r: len(all_verifications)
ClaimsChecked(r) == Len(Received(r))

\* C30: the verification results handed to Trust and counted in
\* pipeline_complete are exactly the result set of the run's last executed
\* iteration: one result per claim of that iteration's dual_verify call, the
\* same at Trust and at pipeline_complete as when the call returned.
LastIterationResultsSurvive ==
    /\ [](\A r \in Runs : runs[r].pc = "returned" => ClaimsChecked(r) = Len(runs[r].claims))
    /\ [][\A r \in Runs : runs[r].pc = "returned" => Received(r)' = Received(r)]_vars

(***************************************************************************)
(* OverrideSpec: the overrides of a run.  think() passes its query         *)
(* parameters max_iterations and gate_threshold through execute() to       *)
(* execute_pipeline (api/routes.py:61-101, core/pipeline.py:438-452); the  *)
(* run is followed up to the return of the gate.                           *)
(***************************************************************************)
\* gate_threshold: Optional[int] = None; a given value is within 0..100
NoOverride == -1

\* the threshold Gatekeeper.gate compares the confidence with: the attribute
\* set in Gatekeeper.__init__; execute_pipeline does not read its
\* gate_threshold parameter
AppliedGateThreshold(override, self_gate_threshold) == self_gate_threshold

OverrideInit ==
    /\ call \in {[fn |-> "execute_pipeline", max_iterations |-> o, gate_threshold |-> t,
                  self_max_iterations |-> m, self_gate_threshold |-> GateThreshold,
                  constraints |-> <<[id |-> "C1", priority |-> "high"]>>, llm |-> llm] :
                    o \in 0..MaxIterations, m \in 1..MaxIterations,
                    t \in {NoOverride, GateThreshold - 5, GateThreshold + 5},
                    llm \in PipelineGateOutcomes}
    /\ ret = NoResult
    /\ PipelineIdle
    /\ VerifierIdle

\* pipeline.py:88 and 173-179
OverrideGate ==
    /\ call.fn = "execute_pipeline"
    /\ ret = NoResult
    /\ ret' = [max_iter |-> EffectiveMaxIter(call.max_iterations, call.self_max_iterations),
               gate_result |-> Gatekeeper_gate(call.constraints, call.llm,
                                               AppliedGateThreshold(call.gate_threshold,
                                                                    call.self_gate_threshold),
                                               GateMinPassPct)]
    /\ UNCHANGED <<call, pipeline_vars, verifier_vars>>

OverrideSpec == OverrideInit /\ [][OverrideGate]_vars

\* the threshold the run was asked to use
RequestedGateThreshold ==
    IF call.gate_threshold = NoOverride THEN call.self_gate_threshold ELSE call.gate_threshold

\* C31: the overrides given to a run take effect for that run: a
\* max_iterations override is the cap of the loop, and a gate_threshold
\* override is the confidence threshold the Gatekeeper applies when it decides
\* between skip and refine.
OverridesTakeEffect ==
    call.fn = "execute_pipeline" /\ ret # NoResult
    => /\ call.max_iterations # 0 => ret.max_iter = call.max_iterations
       /\ call.max_iterations = 0 => ret.max_iter = call.self_max_iterations
       /\ ret.gate_result = Gatekeeper_gate(call.constraints, call.llm,
                                            RequestedGateThreshold, GateMinPassPct)

(***************************************************************************)
(* The two tracks of a claim (VerifySpec).                                 *)
(***************************************************************************)
\* the verdict and the derivation an answer of the model to the self prompt
\* stands for
AnswerVerdict(answer) ==
    IF answer.kind = "tool" /\ "verdict" \in DOMAIN answer.input
    THEN answer.input.verdict ELSE "unclear"

AnswerDerivation(answer) ==
    IF answer.kind # "tool" THEN "Self-verification failed"
    ELSE IF "derivation" \in DOMAIN answer.input THEN answer.input.derivation ELSE ""

\* the self track of the claim at k saw the claim text only, and what it
\* returned is what the model answered to that
SelfTrackFromClaimOnly(k) ==
    /\ tracks[k].self.input = SelfVerifyUserPrompt(runs[1].claims[k].claim)
    /\ tracks[k].self.st = "done"
       => /\ tracks[k].self.verdict = AnswerVerdict(tracks[k].self.answer)
          /\ tracks[k].self.derivation = AnswerDerivation(tracks[k].self.answer)

\* C32 as stated: whatever the web track of a claim found, answered or
\* raised, the self track of the claim is given the claim text alone and
\* returns the verdict and derivation of its own model call.
SelfTrackIndependent ==
    \A k \in 1..Len(results_v2) :
        call.self_verify_enabled
        => /\ tracks[k].self.st # "idle"
           /\ SelfTrackFromClaimOnly(k)

\* C32, amended: a self track that runs is given the claim text alone and
\* returns the verdict and derivation of its own model call, whatever the web
\* track found or answered; under gather it runs whatever the web track does,
\* and in the sequential mode it runs unless the web track raised.
SelfTrackIndependentWhenRun ==
    \A k \in 1..MaxVerifyClaims :
        /\ tracks[k].self.st # "idle" => SelfTrackFromClaimOnly(k)
        /\ ( /\ HasResult(k)
             /\ call.self_verify_enabled
             /\ call.self_verify_parallel \/ tracks[k].web.st # "raised" )
           => tracks[k].self.st # "idle"
        /\ ( /\ HasResult(k)
             /\ call.self_verify_enabled
             /\ ~call.self_verify_parallel
             /\ tracks[k].web.st = "raised" )
           => tracks[k].self.st = "idle"

\* sequential mode: the web track of the first claim raised and its self track
\* never ran; the self track of the second claim refuted what the web track
\* verified
SelfTrackIndependentWitness ==
    /\ call.self_verify_enabled
    /\ ~call.self_verify_parallel
    /\ Len(results_v2) = 2
    /\ tracks[1].web.st = "raised"
    /\ tracks[1].self.st = "idle"
    /\ tracks[2].self.st = "done"
    /\ tracks[2].web.verdict = "verified"
    /\ tracks[2].self.verdict = "refuted"

(***************************************************************************)
(* What a run hands from phase to phase (Spec).                            *)
(***************************************************************************)
\* critic.critique of this iteration has been called and no later component
\* has
CritiqueCalled == call.fn = "critique"

\* C33: in iteration 1 the Critic is told the constraint ids that failed the
\* gate, and in every iteration k > 1 the ids that the convergence check of
\* iteration k-1 reported unsatisfied.
CriticToldPriorFailures ==
    CritiqueCalled
    => /\ call.iteration = 1 => call.failing_constraints = gate_result.failing_constraints
       /\ call.iteration > 1
          => call.failing_constraints = convergence_result.unsatisfied_constraints

\* C34: there is one current candidate per iteration: iteration 1 critiques
\* and refines the draft, iteration k+1 critiques and refines exactly the
\* refined text of iteration k, Converge of iteration k checks the refined
\* text of iteration k, and Trust compares the unmodified output of the Draft
\* phase with the refined text of the last iteration.
OneCandidatePerIteration ==
    /\ [](/\ call.fn = "critique"
             => /\ call.draft = current_draft
                /\ call.iteration = 1 => call.draft = draft_content
                /\ call.iteration > 1 => call.draft = refine_result.refined_response
          /\ call.fn = "selective_refine" => call.draft = current_draft
          /\ call.fn = "check_convergence"
             => /\ call.text = refine_result.refined_response
                /\ current_draft = call.text
          /\ call.fn = "trust_and_rank"
             => /\ call.original_draft = draft_content
                /\ call.refined_output = current_draft
                /\ ~fast_path => call.refined_output = refine_result.refined_response
                /\ fast_path => call.refined_output = draft_content)
    /\ [][/\ pc \notin {"draft", "gate", "converge"} => current_draft' = current_draft
          /\ pc # "draft" => draft_content' = draft_content
          /\ pc = "refine" => call'.draft = call.draft]_vars

\* the second iteration critiques the text that the first iteration changed
OneCandidatePerIterationWitness ==
    /\ call.fn = "critique"
    /\ call.iteration = 2
    /\ call.draft # draft_content
    /\ call.draft = refine_result.refined_response

\* ---------------------------------------------------------------------------
\* The failing list of a gate result (GateSpec)
\* ---------------------------------------------------------------------------

GateResponded == call.fn = "gate" /\ ret # NoResult /\ call.llm.kind = "tool"

ListedFailing == Get(call.llm.input, "failing_constraints", <<>>)

FailingAsClaimed ==
    IF ListedFailing = <<>>
    THEN ret.failing_constraints = FailedIds(ret.sub_questions)
    ELSE ret.failing_constraints = ListedFailing

NullRunCompletes ==
    all_null =>
        /\ iteration <= 1
        /\ "decompose" \in Phases => constraints = Decomposer_fallback_result
        /\ "gate" \in Phases
           => /\ gate_result.gate_decision = "refine"
              /\ ~fast_path
              /\ pc # "trust" \/ "converge" \in Phases
        /\ "critique" \in Phases => critique_result.claims_to_verify = <<>>
        /\ "verify" \in Phases => all_verifications = <<>>
        /\ "refine" \in Phases => refine_result.refined_response = draft_content
        /\ "converge" \in Phases
           => /\ convergence_result # NoResult
              /\ convergence_result.decision = "converged"
              /\ current_draft = draft_content
              /\ pc \in {"trust", "complete", "done"}
        /\ "trust" \in Phases
           => /\ call.fn = "trust_and_rank"
              /\ call.llm_calls = 0
              /\ trust_result.winner = "refined"
        /\ pc = "done" /\ "draft" \in Phases
           => /\ Last(events) = Ev("pipeline_complete", 1)
              /\ PipelineCompletePayload.iterations_used = 1
              /\ PipelineCompletePayload.trust_winner = "refined"
              /\ PipelineCompletePayload.final_output = draft_content
              /\ PipelineCompletePayload.claims_checked = 0
              /\ PipelineCompletePayload.constraints_total = 2

\* the run of nulls has sent pipeline_complete
NullRunCompletesWitness ==
    /\ all_null
    /\ pc = "done"
    /\ Phases = {"decompose", "draft", "gate", "critique", "verify", "refine",
                 "converge", "trust"}
    /\ draft_content # <<>>
    /\ Last(events)[1] = "pipeline_complete"

\* ---------------------------------------------------------------------------
\* A track that fails (VerifySpec)
\* ---------------------------------------------------------------------------

\* self_verify_claim got no tool input or caught an exception
SelfTrackFailed(k) ==
    /\ call.self_verify_enabled
    /\ tracks[k].self.st = "done"
    /\ tracks[k].self.answer.kind \in {"none", "raise"}

\* the web track returned a verdict of ClaimVerdict
WebVerdictGiven(k) ==
    tracks[k].web.st = "done" /\ tracks[k].web.verdict \in ClaimVerdict

\* C37: if the self track of a claim fails, its verdict is taken as unclear
\* and the combination table is applied to (web verdict, unclear); if the web
\* track of a claim raises, the claim's result is unclear with confidence 0,
\* web_verified false and no self verdict, even when the self track returned
\* verified or refuted.
TracksFailAsymmetrically ==
    call.fn = "dual_verify" =>
        \A k \in 1..MaxVerifyClaims :
            HasResult(k) =>
                LET r == results_v2[k]
                IN  /\ SelfTrackFailed(k) /\ WebVerdictGiven(k)
                       => /\ r.web_verdict = tracks[k].web.verdict
                          /\ r.self_verdict = "unclear"
                          /\ <<r.web_verdict, "unclear", r.combined_verdict,
                               r.combined_confidence>> \in VerdictTable
                          /\ r.web_verified = tracks[k].web.found
                    /\ tracks[k].web.st = "raised"
                       => /\ r.combined_verdict = "unclear"
                          /\ r.combined_confidence = 0
                          /\ r.web_verified = FALSE
                          /\ r.self_verdict = "none"

\* one claim whose self track failed beside a web verdict of verified, and one
\* whose web track raised beside a self verdict of verified
TracksFailAsymmetricallyWitness ==
    /\ call.fn = "dual_verify"
    /\ HasResult(2)
    /\ SelfTrackFailed(1)
    /\ WebVerdictGiven(1)
    /\ tracks[1].web.verdict = "verified"
    /\ results_v2[1].combined_confidence = 60
    /\ tracks[2].web.st = "raised"
    /\ tracks[2].self.st = "done"
    /\ tracks[2].self.verdict = "verified"
    /\ results_v2[2].self_verdict = "none"

\* ---------------------------------------------------------------------------
\* The winner and the blended flag of a TrustResult (TrustSpec)
\* ---------------------------------------------------------------------------

\* C38: every TrustResult returned by trust_and_rank has winner equal to
\* 'blended' if and only if its blended flag is true, and winner is always
\* one of draft, refined, blended.
WinnerMatchesBlendedFlag ==
    TrustReturned =>
        /\ ret.winner = "blended" <=> ret.blended
        /\ ret.winner \in {"draft", "refined", "blended"}

\* ---------------------------------------------------------------------------
\* The stages of enforce after the paragraph count (EnforceSpec)
\* ---------------------------------------------------------------------------

EnforceCalled == call.fn = "enforce" /\ ret # NoResult /\ ret.kind = "return"

\* C39: when enforce is given a paragraph-count requirement N and other
\* requirements (Nth-paragraph first word, bullet count), the stages after
\* the paragraph-count enforcement do not change the paragraph count: if the
\* paragraph stage produced N paragraphs, the text returned by enforce has N
\* paragraphs.
LaterStagesKeepParagraphCount ==
    (/\ EnforceCalled
     /\ call.requirements.paragraphs # NoRequirement
     /\ \/ call.requirements.first_word # NoRequirement
        \/ call.requirements.bullets # NoRequirement
     /\ Len(split_paragraphs(ret.paragraph_stage)) = call.requirements.paragraphs)
    => ParagraphCount(ret.text) = call.requirements.paragraphs

====
